---- MODULE Spec2Model ----
(***************************************************************************)
(* A model of the market data plane of fks_portfolio: the SQLite price     *)
(* store (src/data/storage.py), the TTL cache (src/data/cache.py), the     *)
(* data manager that routes between them and the adapters                  *)
(* (src/data/manager.py), the background collector                         *)
(* (src/data/collector.py), the adapters (src/data/adapters) and the       *)
(* signal layer (src/signals, src/ai/signal_refiner.py).                   *)
(*                                                                         *)
(* Each component has its own specification over the shared variables:     *)
(*   SpecStore      store_prices / get_prices, one writer and one reader   *)
(*   SpecQuery      store_prices and get_prices over date ranges           *)
(*   SpecCache      DataCache get / set / clear as time passes             *)
(*   SpecSelect     DataManager._select_adapter                            *)
(*   SpecRouterPrice  DataManager.fetch_price over the cache               *)
(*   SpecRouterHist   DataManager.fetch_historical_prices over the store   *)
(*   SpecCollector  DataCollector start / stop and its collection loop     *)
(*   SpecCollect    DataCollector._collect_asset over the router and store  *)
(*   SpecCycle      the collection loop over its enabled assets             *)
(*   SpecSnapshot   the loop beside enable_asset / disable_asset            *)
(*   SpecManual     DataCollector.collect_now beside the loop               *)
(*   SpecAdapter    the rate limiter and the fetches of one adapter         *)
(*   SpecSignal     SignalEngine, SignalGenerator and AISignalRefiner       *)
(*   SpecDecision   DecisionSupport.analyze_signal                          *)
(*   SpecTracker    PortfolioTracker: the decision log and its file         *)
(*   SpecAllocation AllocationTracker: the report and its actions           *)
(*   SpecAi         AIServiceClient, AIBiasMitigator and their routes       *)
(*   SpecBias       BiasDetector: its checks and its overall label          *)
(*   SpecPortfolio  Portfolio: its allocations and its BTC constraint       *)
(*   SpecCrew       DataCollector: every worker thread of one collector     *)
(*   SpecWatermark  last_collected under the loop, collect_now and the      *)
(*                  operator, in memory and on file                         *)
(***************************************************************************)
EXTENDS Integers, Sequences, FiniteSets, TLC

VARIABLES
    db,      \* DataStorage: the committed rows of table prices
    w,       \* DataStorage.store_prices: the call in flight, or the last one
    rd,      \* DataStorage.get_prices: the result of the read just made
    now,        \* datetime.now(), in seconds
    cacheDir,   \* DataCache.cache_dir is set: the file tier is on
    memory,     \* DataCache.memory_cache: cache key -> entry
    files,      \* the .pkl files of cache_dir: cache key -> entry
    lastSet,    \* per key, the last set since the key was last cleared
    cres,       \* DataCache.get: the call just made and what it returned
    rt,          \* DataManager: the call just made and what it did
    enableCache, \* DataManager.cache is a DataCache (enable_cache)
    running,     \* DataCollector._running
    worker,      \* DataCollector._thread: where _collection_loop stands
    stopper,     \* the caller of DataCollector.stop(): where it stands
    sinceStop,   \* seconds since stop() cleared _running; -1 while running
    assets,      \* AssetConfigManager._assets: symbol -> configuration
    clock,       \* datetime.now() on the calendar: day and time of day
    pass,        \* DataCollector._collect_asset: the call just made
    manual,      \* DataCollector.collect_now: where its caller stands
    lim,         \* BaseDataAdapter: the rate limiter of one adapter
    ad,          \* one adapter: its credential and the fetch just made
    sig,         \* the signal layer: the call just made and its result
    dec,         \* DecisionSupport.analyze_signal: the call just made
    trk,         \* PortfolioTracker: decision_logs, the log file, the last call
    alloc,       \* AllocationTracker: the call just made and its report
    pf,          \* Portfolio: its assets and weights, and the check just made
    aic,         \* AIServiceClient and AIBiasMitigator: the call just made
    rk,          \* BiasDetector: the flags judged and the label given
    crew,        \* DataCollector: every worker thread start() has spawned
    wm           \* the last_collected watermarks, in memory and on file

storeVars == <<db, w, rd>>
cacheVars == <<now, cacheDir, memory, files, lastSet, cres>>
routerVars == <<rt, enableCache>>
collectorVars == <<running, worker, stopper, sinceStop>>
configVars == <<assets, clock, pass>>
manualVars == <<manual>>
adapterVars == <<lim, ad>>
signalVars == <<sig>>
guidanceVars == <<dec, trk>>
portfolioVars == <<alloc, pf>>
aiVars == <<aic>>
riskVars == <<rk>>
threadVars == <<crew>>
watermarkVars == <<wm>>
deskVars == <<guidanceVars, portfolioVars, aiVars, riskVars, threadVars,
              watermarkVars>>
\* everything below the guidance, portfolio and AI layers
plantVars == <<storeVars, cacheVars, routerVars, collectorVars, configVars,
               manualVars, adapterVars, signalVars>>
\* everything but one of these layers
offGuidance == <<portfolioVars, aiVars, riskVars, threadVars, watermarkVars,
                 plantVars>>
offPortfolio == <<guidanceVars, aiVars, riskVars, threadVars, watermarkVars,
                  plantVars>>
offAi == <<guidanceVars, portfolioVars, riskVars, threadVars, watermarkVars,
           plantVars>>
offRisk == <<guidanceVars, portfolioVars, aiVars, threadVars, watermarkVars,
             plantVars>>
offThreads == <<guidanceVars, portfolioVars, aiVars, riskVars, watermarkVars,
                plantVars>>
offWatermarks == <<guidanceVars, portfolioVars, aiVars, riskVars, threadVars,
                   plantVars>>
sideVars == <<manualVars, adapterVars, signalVars, deskVars>>
appVars == <<configVars, sideVars>>
extVars == <<routerVars, collectorVars, appVars>>
vars == <<storeVars, cacheVars, extVars>>

(***************************************************************************)
(* Bounds and input domains                                                *)
(***************************************************************************)
MaxDay == 1
MaxBatch == 2
\* the clock stops at MaxTime seconds
MaxTime == 3
\* DataCache.ttl_seconds, scaled down from the default of 300
TtlSeconds == 2

\* timedelta(days=365) of the first collection, scaled down
YearDays == 2
\* the symbols of the asset configuration
AssetSymbols == {"BTC", "ETH", "SPY"}

None == "None"
Symbols == {"BTC"}
AdapterNames == {"Binance", "CoinGecko"}
Days == 0..MaxDay
\* time of day: 0 is 00:00:00, 1 is a later time of the same day
Tods == {0, 1}
\* one number stands for the five floats open, high, low, close, volume
Values == {1, 2}
Timestamps == [day : Days, tod : Tods]
\* start_date or end_date not given
NoDate == [day |-> -1, tod |-> -1]
\* no read made
NoRead == [result |-> "none"]
Obs == [date : Timestamps, val : Values]
\* the rows of a daily series: one per day, at 00:00:00
DailyObs == {o \in Obs : o.date.tod = 0}

\* a time series comes in ascending time, as the providers return it
Before(s, t) == s.day < t.day \/ (s.day = t.day /\ s.tod < t.tod)

(***************************************************************************)
(* Dates as the store sees them.  A text is a sequence of fields compared  *)
(* field by field, a proper prefix sorting first, as SQLite's BINARY       *)
(* collation compares '2023-01-01' and '2023-01-01 00:00:00'.              *)
(***************************************************************************)
\* date_value.strftime('%Y-%m-%d')
Strftime(ts) == <<ts.day>>

\* sqlite3's default adapter for a datetime parameter: isoformat(" ")
AdaptDatetime(ts) == <<ts.day, ts.tod>>

\* parse_dates=["date"] of read_sql_query
ParseDate(text) == [day |-> text[1], tod |-> IF Len(text) > 1 THEN text[2] ELSE 0]

TextLess(a, b) ==
    LET n == IF Len(a) < Len(b) THEN Len(a) ELSE Len(b)
        diff == {i \in 1..n : a[i] # b[i]}
    IN  IF diff = {} THEN Len(a) < Len(b)
        ELSE LET i == CHOOSE k \in diff : \A j \in diff : k <= j
             IN  a[i] < b[i]

TextLeq(a, b) == a = b \/ TextLess(a, b)

(***************************************************************************)
(* DataCache                                                               *)
(***************************************************************************)
CacheAdapters == {"Binance", "CoinGecko"}
Prices == {1, 2}
NoPrice == 0
\* the (adapter, symbol, timestamp) a caller passes: the spot price of BTC
\* at Binance, and the price of BTC at CoinGecko at two times of day 0
CacheCalls ==
    {<<"Binance", "BTC", NoDate>>}
        \cup {<<"CoinGecko", "BTC", t>> : t \in {u \in Timestamps : u.day = 0}}

\* _get_cache_key: the md5 of adapter, symbol and the day of the timestamp
\* joined by "_"; no adapter name or symbol here holds a "_", so distinct
\* parts give distinct keys
CacheKey(adapter, symbol, timestamp) ==
    IF timestamp = NoDate THEN <<adapter, symbol>>
    ELSE <<adapter, symbol, timestamp.day>>

CacheKeys == {CacheKey(c[1], c[2], c[3]) : c \in CacheCalls}

NoEntry == [present |-> FALSE]
Empty == [k \in CacheKeys |-> NoEntry]

\* an entry past its TTL is returned all the same
FreshForever(entry, t) == entry.present

\* age < self.ttl_seconds
Fresh(entry, t) == entry.present /\ t - entry.timestamp < TtlSeconds

\* DataCache.get: the price returned and the two tiers afterwards; io tells
\* whether the file operations of this call succeed
CacheGet(mem, fls, dir, key, t, io) ==
    IF Fresh(mem[key], t)
    THEN [price |-> mem[key].price, memory |-> mem, files |-> fls]
    ELSE LET mem1 == [mem EXCEPT ![key] = NoEntry]
         IN  IF ~dir \/ io = "fail" \/ ~fls[key].present
             THEN [price |-> NoPrice, memory |-> mem1, files |-> fls]
             ELSE IF Fresh(fls[key], t)
             THEN [price |-> fls[key].price,
                   memory |-> [mem1 EXCEPT ![key] = fls[key]], files |-> fls]
             ELSE [price |-> NoPrice, memory |-> mem1,
                   files |-> [fls EXCEPT ![key] = NoEntry]]

\* DataCache.set: the entry goes to memory, and to its file unless the write
\* fails
CacheSet(mem, fls, dir, adapter, symbol, price, timestamp, t, io) ==
    LET key == CacheKey(adapter, symbol, timestamp)
        entry == [present |-> TRUE, price |-> price, timestamp |-> t,
                  adapter |-> adapter, symbol |-> symbol]
    IN  [memory |-> [mem EXCEPT ![key] = entry],
         files |-> IF dir /\ io = "ok" THEN [fls EXCEPT ![key] = entry] ELSE fls]

\* DataCache.clear: memory loses the adapter's entries (all of them when no
\* adapter is named); every file goes, whichever adapter is named
CacheClear(mem, fls, dir, adapter, io) ==
    [memory |-> [k \in CacheKeys |->
                    IF mem[k].present /\ (adapter = None \/ mem[k].adapter = adapter)
                    THEN NoEntry ELSE mem[k]],
     files |-> IF dir /\ io = "ok" THEN Empty ELSE fls]

NoCall == [op |-> "none"]

CacheStart ==
    /\ now = 0
    /\ memory = Empty
    /\ files = Empty
    /\ lastSet = Empty
    /\ cres = NoCall

CacheOff == CacheStart /\ cacheDir = FALSE

Tick ==
    /\ now < MaxTime
    /\ now' = now + 1
    /\ cres' = NoCall
    /\ UNCHANGED <<cacheDir, memory, files, lastSet, storeVars, extVars>>

DoCacheGet ==
    /\ \E call \in CacheCalls, io \in {"ok", "fail"} :
         LET key == CacheKey(call[1], call[2], call[3])
             got == CacheGet(memory, files, cacheDir, key, now, io)
         IN  /\ memory' = got.memory
             /\ files' = got.files
             /\ cres' = [op |-> "get", key |-> key, price |-> got.price, at |-> now,
                         io |-> io]
    /\ UNCHANGED <<now, cacheDir, lastSet, storeVars, extVars>>

DoCacheSet ==
    /\ \E call \in CacheCalls, price \in Prices, io \in {"ok", "fail"} :
         LET key == CacheKey(call[1], call[2], call[3])
             put == CacheSet(memory, files, cacheDir, call[1], call[2], price,
                             call[3], now, io)
         IN  /\ memory' = put.memory
             /\ files' = put.files
             /\ lastSet' = [lastSet EXCEPT ![key] = put.memory[key]]
             /\ cres' = NoCall
    /\ UNCHANGED <<now, cacheDir, storeVars, extVars>>

DoCacheClear ==
    /\ \E adapter \in CacheAdapters \cup {None}, io \in {"ok", "fail"} :
         LET cleared == CacheClear(memory, files, cacheDir, adapter, io)
         IN  /\ memory' = cleared.memory
             /\ files' = cleared.files
             /\ lastSet' = [k \in CacheKeys |->
                              IF adapter = None \/ k[1] = adapter
                              THEN NoEntry ELSE lastSet[k]]
             /\ cres' = NoCall
    /\ UNCHANGED <<now, cacheDir, storeVars, extVars>>

(***************************************************************************)
(* DataStorage                                                             *)
(***************************************************************************)
SameKey(r, s) == r.symbol = s.symbol /\ r.date = s.date /\ r.adapter = s.adapter

\* the row store_prices binds for one DataFrame row
RowOf(symbol, o, adapter) ==
    [symbol |-> symbol, date |-> Strftime(o.date), val |-> o.val, adapter |-> adapter]

\* a plain INSERT: the row already there stays beside the new one
InsertOnly(table, row) == table \cup {row}

\* INSERT OR REPLACE under UNIQUE(symbol, date, adapter)
InsertOrReplace(table, row) == {r \in table : ~SameKey(r, row)} \cup {row}

RECURSIVE InsertAll(_, _, _, _)
InsertAll(table, symbol, batch, adapter) ==
    IF batch = <<>> THEN table
    ELSE InsertAll(InsertOrReplace(table, RowOf(symbol, Head(batch), adapter)),
                   symbol, Tail(batch), adapter)

\* the WHERE clause of get_prices
Selected(table, symbol, start, end, adapter) ==
    {r \in table :
        /\ r.symbol = symbol
        /\ adapter # None => r.adapter = adapter
        /\ start # NoDate => TextLeq(AdaptDatetime(start), r.date)
        /\ end # NoDate => TextLeq(r.date, AdaptDatetime(end))}

\* ORDER BY date; rows of equal date come in an order SQL leaves open
RECURSIVE OrderByDate(_)
OrderByDate(rows) ==
    IF rows = {} THEN <<>>
    ELSE LET first == CHOOSE r \in rows : \A s \in rows : TextLeq(r.date, s.date)
         IN  <<first>> \o OrderByDate(rows \ {first})

\* the DataFrame get_prices returns: date, OHLCV
GetPrices(table, symbol, start, end, adapter) ==
    LET ordered == OrderByDate(Selected(table, symbol, start, end, adapter))
    IN  [i \in 1..Len(ordered) |->
            [date |-> ParseDate(ordered[i].date), val |-> ordered[i].val]]

\* the rows inserted before the error stay
RollbackKeepsRows(before, pending) == pending

\* conn.rollback(): the table is what it was before the batch
Rollback(before, pending) == before

\* conn.commit(): the rows of the transaction become the table
Commit(before, pending) == pending

Idle == [pc |-> "idle"]

StoreStart ==
    /\ db = {}
    /\ w = Idle
    /\ rd = NoRead

\* what store_prices leaves behind when it ends
Ended(pc, outcome) ==
    [pc |-> pc, outcome |-> outcome, symbol |-> w.symbol, adapter |-> w.adapter,
     batch |-> w.batch, before |-> w.before]

\* store_prices up to the loop: an empty DataFrame returns at once; connect is
\* outside the try, so its error reaches the caller; a DataFrame with no date
\* column is logged and dropped
PutBegin(adapters) ==
    /\ w.pc \in {"idle", "returned", "raised"}
    /\ \E symbol \in Symbols, adapter \in adapters,
          entry \in {"empty", "connect", "nodate", "rows"} :
         LET call == [symbol |-> symbol, adapter |-> adapter, batch |-> <<>>,
                      before |-> db]
         IN  w' = CASE entry = "empty" -> [pc |-> "returned", outcome |-> "empty"] @@ call
                    [] entry = "connect" -> [pc |-> "raised", outcome |-> "connect"] @@ call
                    [] entry = "nodate" -> [pc |-> "returned", outcome |-> "nodate"] @@ call
                    [] OTHER -> [pc |-> "rows", pending |-> db] @@ call
    /\ rd' = NoRead
    /\ UNCHANGED <<db, cacheVars, extVars>>

\* one turn of the loop over the DataFrame's rows; an error (float() of a bad
\* cell, a locked or full database) goes to the except branch and rolls back
InsertRow(rows) ==
    /\ w.pc = "rows"
    /\ Len(w.batch) < MaxBatch
    /\ \E o \in rows, ok \in BOOLEAN :
         /\ w.batch # <<>> => Before(w.batch[Len(w.batch)].date, o.date)
         /\ IF ok
            THEN /\ w' = [w EXCEPT !.batch = Append(@, o),
                                   !.pending = InsertOrReplace(@,
                                                  RowOf(w.symbol, o, w.adapter))]
                 /\ db' = db
            ELSE /\ w' = [Ended("returned", "error") EXCEPT !.batch = Append(@, o)]
                 /\ db' = Rollback(db, w.pending)
    /\ rd' = NoRead
    /\ UNCHANGED <<cacheVars, extVars>>

\* conn.commit() after the last row
StoreCommit ==
    /\ w.pc = "rows"
    /\ w.batch # <<>>
    /\ w' = Ended("returned", "stored")
    /\ db' = Commit(db, w.pending)
    /\ rd' = NoRead
    /\ UNCHANGED <<cacheVars, extVars>>

\* get_prices on the reader's own connection: it sees the committed table;
\* connect is outside the try, a failing query is logged and returns empty
Get(starts, ends, adapters) ==
    /\ rd = NoRead
    /\ \E symbol \in Symbols, start \in starts, end \in ends, adapter \in adapters,
          result \in {"raised", "empty", "rows"} :
         rd' = [symbol |-> symbol, start |-> start, end |-> end, adapter |-> adapter,
                result |-> result,
                rows |-> IF result = "rows"
                         THEN GetPrices(db, symbol, start, end, adapter) ELSE <<>>]
    /\ UNCHANGED <<db, w, cacheVars, extVars>>

\* the reader takes the DataFrame and is ready for its next read
GetReturn ==
    /\ rd # NoRead
    /\ rd' = NoRead
    /\ UNCHANGED <<db, w, cacheVars, extVars>>

(***************************************************************************)
(* SpecStore: a writer storing daily batches under two adapters, row by    *)
(* row, and a reader reading whole series at any moment.                   *)
(***************************************************************************)
StorePutBegin == PutBegin(AdapterNames)
StoreInsertRow == InsertRow(DailyObs)
StoreGet == Get({NoDate}, {NoDate}, {None})

NextStore ==
    \/ StorePutBegin
    \/ StoreInsertRow
    \/ StoreCommit
    \/ StoreGet
    \/ GetReturn

\* DataManager.__init__ with its defaults: a cache, and no call made yet
RouterStart == rt = NoCall /\ enableCache = TRUE

\* AssetConfigManager.__init__ with a configuration of enabled assets never
\* collected, at the first moment of the calendar with a year behind it
ConfigStart ==
    /\ assets = [s \in AssetSymbols |->
                    [enabled |-> TRUE, priority |-> 1, last_collected |-> NoDate]]
    /\ clock = [day |-> YearDays, tod |-> 0]
    /\ pass = NoCall

\* no collect_now call in flight
ManualStart == manual = [pc |-> "idle"]

\* BaseDataAdapter.__init__: an empty window that starts now; whose window it
\* is, the specification of the adapters chooses
AdapterStart ==
    /\ lim = [at |-> 0, window_start |-> 0, request_count |-> 0, issued |-> 0,
              last |-> "none", lastAt |-> 0]
    /\ ad = NoCall

\* no signal requested yet
SignalStart ==
    sig = [op |-> "none", now |-> 0, ai |-> FALSE, candidates |-> <<>>, out |-> <<>>]

\* PortfolioTracker.__init__ where no log file exists yet
TrackerStart ==
    trk = [logs |-> <<>>, file |-> [state |-> "absent", entries |-> <<>>],
           n |-> 0, op |-> "init"]

GuidanceStart == dec = [op |-> "none"] /\ TrackerStart

\* the symbols a portfolio may hold
PortfolioSymbols == {"BTC", "ETH", "SPY"}

\* the mark of a symbol that is not a key of Portfolio.allocations
NotHeld == -1

\* Portfolio(): no assets, no allocations
PortfolioStart ==
    /\ alloc = [op |-> "none"]
    /\ pf = [op |-> "init", allocations |-> [s \in PortfolioSymbols |-> NotHeld],
             raised |-> FALSE, valid |-> FALSE]

AiStart == aic = [op |-> "none"]

RiskStart == rk = [op |-> "none"]

\* DataCollector.__init__: not running, no thread spawned yet
ThreadStart ==
    crew = [running |-> FALSE, workers |-> <<>>,
            caller |-> [pc |-> "idle", waited |-> 0], op |-> "init"]

\* the assets whose watermarks are followed
WatermarkSymbols == {"BTC", "ETH"}

\* last_collected is None
NeverCollected == -1

\* an AssetConfigManager over a configuration of enabled assets that were
\* never collected, saved in its file; neither the loop nor collect_now has
\* a pass under way
WatermarkStart ==
    LET fresh == [s \in WatermarkSymbols |->
                     [enabled |-> TRUE, last_collected |-> NeverCollected]]
        idle == [todo |-> <<>>, symbol |-> "none", end_date |-> 0]
    IN  wm = [assets |-> fresh,
              file |-> [state |-> "json", assets |-> fresh],
              now |-> 0,
              passes |-> [who \in {"loop", "collect_now"} |-> idle]]

DeskStart ==
    /\ GuidanceStart /\ PortfolioStart /\ AiStart /\ RiskStart
    /\ ThreadStart /\ WatermarkStart

SideStart == ManualStart /\ AdapterStart /\ SignalStart /\ DeskStart

AppStart == ConfigStart /\ SideStart

\* DataCollector.__init__: not running, no thread
CollectorStart ==
    /\ running = FALSE
    /\ worker = [pc |-> "none", left |-> 0]
    /\ stopper = [pc |-> "idle", waited |-> 0]
    /\ sinceStop = -1

ExtStart == RouterStart /\ CollectorStart /\ AppStart

InitStore == StoreStart /\ CacheOff /\ ExtStart

SpecStore == InitStore /\ [][NextStore]_vars

\* the last store_prices call ended, and how
PutEnded(outcome) == w.pc = "returned" /\ w.outcome = outcome

\* the key the claims speak of: symbol, calendar day, adapter
DayKeyOfRow(r) == <<r.symbol, r.date[1], r.adapter>>
DayKeysOfBatch == {<<w.symbol, w.batch[i].date.day, w.adapter>> : i \in 1..Len(w.batch)}

\* the value the last observation of that day in the batch carries
LastValOfDay(day) ==
    LET last == CHOOSE i \in 1..Len(w.batch) :
                    /\ w.batch[i].date.day = day
                    /\ \A j \in (i + 1)..Len(w.batch) : w.batch[j].date.day # day
    IN  w.batch[last].val

\* C1: the store holds at most one row per (symbol, date, adapter); a put that
\* completes adds one row for each of its keys not yet present and none for a
\* key already present, and each of its keys then carries the value of its
\* most recent write
UpsertOneRowPerKey ==
    /\ \A r, s \in db : DayKeyOfRow(r) = DayKeyOfRow(s) => r = s
    /\ PutEnded("stored") =>
          /\ Cardinality(db) = Cardinality(w.before)
                + Cardinality(DayKeysOfBatch \ {DayKeyOfRow(r) : r \in w.before})
          /\ \A k \in DayKeysOfBatch :
                \E r \in db : DayKeyOfRow(r) = k /\ r.val = LastValOfDay(k[2])

\* C1 witness: a put has replaced the value of a key that was present, and
\* the row count is what it was
UpsertReplacedWitness ==
    /\ PutEnded("stored")
    /\ Cardinality(db) = Cardinality(w.before)
    /\ \E r \in w.before : DayKeyOfRow(r) \in DayKeysOfBatch /\ r \notin db

\* what a reader of the series of symbol sees in a table: dates and values
SeriesOf(table, symbol) == {<<r.date[1], r.val>> : r \in {t \in table : t.symbol = symbol}}
SeenBy(read) == {<<read.rows[i].date.day, read.rows[i].val>> : i \in 1..Len(read.rows)}

\* C2: while a batch is being written and after a write error the table is
\* the one before the batch, a concurrent reader sees that table, and a
\* completed put has all its rows in the table
AtomicBatch ==
    /\ (w.pc = "rows" \/ PutEnded("error")) =>
          /\ db = w.before
          /\ rd.result = "rows" => SeenBy(rd) = SeriesOf(w.before, rd.symbol)
    /\ PutEnded("stored") =>
          /\ \A k \in DayKeysOfBatch : \E r \in db : DayKeyOfRow(r) = k
          /\ \A r \in w.before : DayKeyOfRow(r) \notin DayKeysOfBatch => r \in db

\* C2 witness: the write failed after a first row had been inserted, and a
\* reader then read the series
AtomicBatchWitness ==
    /\ PutEnded("error")
    /\ Len(w.batch) >= 2
    /\ <<w.symbol, w.batch[1].date.day, w.adapter>> \notin {DayKeyOfRow(r) : r \in w.before}
    /\ rd.result = "rows"

\* C6: no store operation lets an I/O error reach its caller
NoErrorReachesCaller ==
    /\ w.pc # "raised"
    /\ rd.result # "raised"

(***************************************************************************)
(* SpecQuery: batches of any interval under one adapter, and range reads.  *)
(***************************************************************************)
QueryPutBegin == PutBegin({"Binance"})
QueryInsertRow == InsertRow(Obs)
QueryGet == Get(Timestamps \cup {NoDate}, Timestamps \cup {NoDate}, {None, "Binance"})

NextQuery ==
    \/ QueryPutBegin
    \/ QueryInsertRow
    \/ StoreCommit
    \/ QueryGet
    \/ GetReturn

SpecQuery == InitStore /\ [][NextQuery]_vars

\* the read just made asked for the whole series of the symbol last put
ReadWholeSeries ==
    /\ rd.result = "rows"
    /\ rd.symbol = w.symbol
    /\ rd.start = NoDate /\ rd.end = NoDate /\ rd.adapter = None

\* C3: after a put that completed, a get of the symbol returns every
\* observation of the batch with its date and its values
PutThenGetReturnsBatch ==
    (PutEnded("stored") /\ ReadWholeSeries) =>
        \A i \in 1..Len(w.batch) :
            \E j \in 1..Len(rd.rows) :
                rd.rows[j].date = w.batch[i].date /\ rd.rows[j].val = w.batch[i].val

\* start <= d <= end on the calendar, an absent endpoint not constraining
InWindow(d, start, end) ==
    /\ start # NoDate => (start = d \/ Before(start, d))
    /\ end # NoDate => (d = end \/ Before(d, end))

\* C4: a get returns exactly the stored rows of the symbol dated within
\* [start, end], both endpoints included, in ascending date order
GetReturnsInclusiveRange ==
    rd.result = "rows" =>
        /\ {<<rd.rows[i].date, rd.rows[i].val>> : i \in 1..Len(rd.rows)}
             = {<<ParseDate(r.date), r.val>> :
                   r \in {t \in db : /\ t.symbol = rd.symbol
                                     /\ rd.adapter # None => t.adapter = rd.adapter
                                     /\ InWindow(ParseDate(t.date), rd.start, rd.end)}}
        /\ \A i \in 1..(Len(rd.rows) - 1) :
              Before(rd.rows[i].date, rd.rows[i + 1].date)

(***************************************************************************)
(* SpecCache: one DataCache, with or without its file tier.                *)
(***************************************************************************)
InitCache == CacheStart /\ cacheDir \in BOOLEAN /\ StoreStart /\ ExtStart

NextCache ==
    \/ Tick
    \/ DoCacheGet
    \/ DoCacheSet
    \/ DoCacheClear

SpecCache == InitCache /\ [][NextCache]_vars

\* the get just made found a set of its key, neither overwritten nor cleared
GotAfterSet == cres.op = "get" /\ lastSet[cres.key].present

\* C5 as claimed: a get before the TTL of the last set has elapsed returns the
\* price set; a get after it returns none and leaves the entry in no tier
SetThenGetWithinTtl ==
    GotAfterSet =>
        IF cres.at - lastSet[cres.key].timestamp < TtlSeconds
        THEN cres.price = lastSet[cres.key].price
        ELSE /\ cres.price = NoPrice
             /\ ~memory[cres.key].present
             /\ ~files[cres.key].present

\* C5 amended: a get before the TTL of the last set has elapsed returns the
\* price set; a get after it returns none and leaves the entry neither in
\* memory nor, unless the file operations of that get failed, on file
SetThenGetWithinTtlUnlessIoFails ==
    GotAfterSet =>
        IF cres.at - lastSet[cres.key].timestamp < TtlSeconds
        THEN cres.price = lastSet[cres.key].price
        ELSE /\ cres.price = NoPrice
             /\ ~memory[cres.key].present
             /\ files[cres.key].present => cres.io = "fail"

\* C5 witness: a get after the TTL returned none and evicted the entry from
\* the file tier it had been written to
ExpiredGetWitness ==
    /\ GotAfterSet
    /\ cacheDir
    /\ cres.io = "ok"
    /\ cres.at - lastSet[cres.key].timestamp >= TtlSeconds
    /\ cres.price = NoPrice
    /\ ~files[cres.key].present

(***************************************************************************)
(* DataManager: the adapter registry and _select_adapter.                  *)
(***************************************************************************)
MaxPrefer == 2

\* DataManager.adapters: registry key -> adapter
Registry ==
    {"yahoofinance", "coingecko", "binance", "polygon", "alphavantage",
     "coinmarketcap"}

\* the name attribute of the adapter registered under a key
AdapterName(key) ==
    CASE key = "yahoofinance" -> "YahooFinance"
      [] key = "coingecko" -> "CoinGecko"
      [] key = "binance" -> "Binance"
      [] key = "polygon" -> "Polygon"
      [] key = "alphavantage" -> "AlphaVantage"
      [] key = "coinmarketcap" -> "CoinMarketCap"

StockSymbols ==
    {"SPY", "QQQ", "AAPL", "MSFT", "GOOGL", "AMZN", "TSLA", "NVDA", "META",
     "NFLX", "DIS", "JPM", "V", "MA", "WMT"}

BinanceSymbols ==
    {"BTC", "ETH", "BNB", "SOL", "ADA", "XRP", "DOGE", "DOT", "MATIC", "AVAX",
     "LINK", "UNI", "ATOM", "ALGO", "LTC"}

CoinGeckoSymbols ==
    {"BTC", "ETH", "SOL", "BNB", "ADA", "AVAX", "MATIC", "DOT", "LINK", "UNI",
     "ATOM", "ALGO", "XRP", "DOGE", "SHIB"}

CoinMarketCapSymbols ==
    {"BTC", "ETH", "BNB", "SOL", "ADA", "XRP", "DOGE", "DOT", "MATIC", "AVAX",
     "LINK", "UNI", "ATOM", "ALGO", "LTC", "SHIB"}

YahooCryptoSymbols == {"BTC-USD", "ETH-USD", "SOL-USD", "BNB-USD", "ADA-USD"}

\* s.replace("-USD", "") on the Yahoo crypto tickers
StripUsd(s) ==
    CASE s = "BTC-USD" -> "BTC"
      [] s = "ETH-USD" -> "ETH"
      [] s = "SOL-USD" -> "SOL"
      [] s = "BNB-USD" -> "BNB"
      [] s = "ADA-USD" -> "ADA"
      [] OTHER -> s

\* get_supported_symbols of the adapter registered under a key
SupportedSymbols(key) ==
    CASE key = "yahoofinance" ->
             StockSymbols \cup {StripUsd(s) : s \in YahooCryptoSymbols}
      [] key = "coingecko" -> CoinGeckoSymbols
      [] key = "binance" -> BinanceSymbols
      [] key = "polygon" -> StockSymbols
      [] key = "alphavantage" -> StockSymbols
      [] key = "coinmarketcap" -> CoinMarketCapSymbols

\* the symbols a caller passes: listed and unlisted ones, in either case
SelectSymbols == {"BTC", "SPY", "SHIB", "LTC", "btc", "XYZ"}

\* str.upper() on those symbols
Upper(symbol) == IF symbol = "btc" THEN "BTC" ELSE symbol

\* the auto-selection list of _select_adapter
CryptoSymbols ==
    {"BTC", "ETH", "SOL", "BNB", "ADA", "AVAX", "MATIC", "DOT", "LINK", "UNI",
     "XRP", "DOGE"}

CryptoChain == <<"binance", "coingecko", "coinmarketcap">>

\* preferred_adapters: names a caller may list, one of them not registered;
\* the empty list stands for None as well (both fail "if preferred_adapters")
PreferNames == Registry \cup {"kraken"}
PreferLists == UNION {[1..n -> PreferNames] : n \in 0..MaxPrefer}

\* a registry that takes every symbol
AnySymbolSupported(key, symbol) == key \in Registry

\* adapter = self.adapters.get(name); adapter and adapter.is_symbol_supported
IsSymbolSupported(key, symbol) ==
    key \in Registry /\ symbol \in SupportedSymbols(key)

\* the loops "for adapter_name in ...: if supported: return adapter"
RECURSIVE FirstSupporting(_, _)
FirstSupporting(names, symbol) ==
    IF names = <<>> THEN None
    ELSE IF IsSymbolSupported(Head(names), symbol) THEN Head(names)
    ELSE FirstSupporting(Tail(names), symbol)

\* _select_adapter: the registry key of the adapter returned, and the return
\* statement that returned it
SelectAdapter(symbol, preferred) ==
    LET p == FirstSupporting(preferred, symbol)
        c == IF Upper(symbol) \in CryptoSymbols
             THEN FirstSupporting(CryptoChain, symbol)
             ELSE None
    IN  IF p # None THEN [key |-> p, via |-> "preferred"]
        ELSE IF c # None THEN [key |-> c, via |-> "crypto"]
        ELSE [key |-> "yahoofinance", via |-> "default"]

Select ==
    \E symbol \in SelectSymbols, preferred \in PreferLists :
        /\ rt' = [op |-> "select", symbol |-> symbol, preferred |-> preferred,
                  adapter |-> SelectAdapter(symbol, preferred)]
        /\ UNCHANGED <<enableCache, storeVars, cacheVars, collectorVars, appVars>>

(***************************************************************************)
(* SpecSelect: adapter resolution over symbols and preference lists.       *)
(***************************************************************************)
InitSelect == InitStore

NextSelect == Select

SpecSelect == InitSelect /\ [][NextSelect]_vars

\* the positions of a list of registry keys whose adapter advertises a symbol
Advertising(names, symbol) ==
    {i \in 1..Len(names) :
        names[i] \in Registry /\ symbol \in SupportedSymbols(names[i])}

Least(S) == CHOOSE i \in S : \A j \in S : i <= j

\* C9: with a preference list, the adapter chosen is the first listed one that
\* advertises the symbol; failing that, for a well-known crypto symbol, the
\* first of binance, coingecko, coinmarketcap that advertises it; failing
\* that, yahoofinance. No adapter is taken from the preference list without
\* advertising the symbol.
SelectionRule ==
    rt.op = "select" =>
        LET listed == Advertising(rt.preferred, rt.symbol)
            chained == IF Upper(rt.symbol) \in CryptoSymbols
                       THEN Advertising(CryptoChain, rt.symbol)
                       ELSE {}
        IN  /\ listed # {} =>
                 /\ rt.adapter.key = rt.preferred[Least(listed)]
                 /\ rt.adapter.via = "preferred"
            /\ (listed = {} /\ chained # {}) =>
                 /\ rt.adapter.key = CryptoChain[Least(chained)]
                 /\ rt.adapter.via = "crypto"
            /\ (listed = {} /\ chained = {}) =>
                 /\ rt.adapter.key = "yahoofinance"
                 /\ rt.adapter.via = "default"
            /\ rt.adapter.via = "preferred" =>
                 rt.symbol \in SupportedSymbols(rt.adapter.key)

\* C9 witness: the first listed adapter is registered but does not advertise
\* the symbol, and the second one, which does, is chosen
SelectionSkipsWitness ==
    /\ rt.op = "select"
    /\ Len(rt.preferred) = 2
    /\ rt.preferred[1] \in Registry
    /\ rt.symbol \notin SupportedSymbols(rt.preferred[1])
    /\ rt.preferred[2] # rt.preferred[1]
    /\ rt.adapter = [key |-> rt.preferred[2], via |-> "preferred"]

(***************************************************************************)
(* DataManager.fetch_price                                                 *)
(***************************************************************************)
\* what adapter.fetch_price does: a price, None, or an exception
AdapterOutcomes ==
    {[raised |-> FALSE, price |-> p] : p \in Prices \cup {NoPrice}}
        \cup {[raised |-> TRUE, price |-> NoPrice]}

\* the calls made: the spot price of BTC with no preference, and the price of
\* BTC at a time of day 0 with coingecko preferred
PriceCalls ==
    {[symbol |-> "BTC", timestamp |-> NoDate, preferred |-> <<>>]}
        \cup {[symbol |-> "BTC", timestamp |-> t, preferred |-> <<"coingecko">>] :
                 t \in {u \in Timestamps : u.day = 0}}

\* every adapter result is cached, None included
CacheAnyResult(price, use_cache, cacheOn) == use_cache /\ cacheOn

\* if price is not None and use_cache and self.cache
ShouldCache(price, use_cache, cacheOn) ==
    price # NoPrice /\ use_cache /\ cacheOn

\* fetch_price: the price returned, the number of adapter calls made, the
\* price the cache gave, and the two cache tiers afterwards
FetchPrice(mem, fls, dir, cacheOn, call, use_cache, t, outcome, ioGet, ioSet) ==
    LET adapter == AdapterName(SelectAdapter(call.symbol, call.preferred).key)
        key == CacheKey(adapter, call.symbol, call.timestamp)
        got == IF use_cache /\ cacheOn
               THEN CacheGet(mem, fls, dir, key, t, ioGet)
               ELSE [price |-> NoPrice, memory |-> mem, files |-> fls]
        put == IF ~outcome.raised /\ ShouldCache(outcome.price, use_cache, cacheOn)
               THEN CacheSet(got.memory, got.files, dir, adapter, call.symbol,
                             outcome.price, call.timestamp, t, ioSet)
               ELSE [memory |-> got.memory, files |-> got.files]
    IN  IF got.price # NoPrice
        THEN [price |-> got.price, calls |-> 0, cached |-> got.price,
              adapter |-> adapter, key |-> key,
              memory |-> got.memory, files |-> got.files]
        ELSE [price |-> outcome.price, calls |-> 1, cached |-> NoPrice,
              adapter |-> adapter, key |-> key,
              memory |-> put.memory, files |-> put.files]

\* how the file operations of a call end; without a file tier there are none
FileOutcomes == IF cacheDir /\ enableCache THEN {"ok", "fail"} ELSE {"ok"}

DoFetchPrice ==
    /\ \E call \in PriceCalls, use_cache \in BOOLEAN, outcome \in AdapterOutcomes,
          ioGet \in FileOutcomes, ioSet \in FileOutcomes :
         \E f \in {FetchPrice(memory, files, cacheDir, enableCache, call,
                              use_cache, now, outcome, ioGet, ioSet)} :
             /\ memory' = f.memory
             /\ files' = f.files
             /\ rt' = [op |-> "price", call |-> call, use_cache |-> use_cache,
                       adapter |-> f.adapter, key |-> f.key, at |-> now,
                       cached |-> f.cached, calls |-> f.calls,
                       outcome |-> IF f.calls = 0 THEN NoCall ELSE outcome,
                       price |-> f.price]
    /\ UNCHANGED <<now, cacheDir, lastSet, cres, enableCache, storeVars,
                   collectorVars, appVars>>

\* the clock of the cache, with the last router call left as it is
RouterTick ==
    /\ now < MaxTime
    /\ now' = now + 1
    /\ UNCHANGED <<cacheDir, memory, files, lastSet, cres, storeVars, extVars>>

(***************************************************************************)
(* SpecRouterPrice: fetch_price calls over one DataCache, or over none.    *)
(***************************************************************************)
InitRouterPrice ==
    /\ CacheStart
    /\ cacheDir \in BOOLEAN
    /\ StoreStart
    /\ rt = NoCall
    /\ enableCache \in BOOLEAN
    /\ CollectorStart
    /\ AppStart

NextRouterPrice ==
    \/ RouterTick
    \/ DoFetchPrice

SpecRouterPrice == InitRouterPrice /\ [][NextRouterPrice]_vars

\* the last fetch_price call got a price from its adapter
AdapterGavePrice ==
    /\ rt.op = "price"
    /\ rt.calls = 1
    /\ ~rt.outcome.raised
    /\ rt.outcome.price # NoPrice

\* the cache holds, under the key of the last call, the price its adapter gave
WrittenThrough ==
    /\ memory[rt.key].present
    /\ memory[rt.key].price = rt.outcome.price
    /\ memory[rt.key].timestamp = rt.at
    /\ rt.key = CacheKey(rt.adapter, rt.call.symbol, rt.call.timestamp)

\* no tier of the cache holds None as a price
NoneNeverCached ==
    \A k \in CacheKeys :
        /\ memory[k].present => memory[k].price \in Prices
        /\ files[k].present => files[k].price \in Prices

\* C8 as claimed: a fetch_price call invokes its adapter at most once, and not
\* at all when the cache gave a price; a price the adapter gives is in the
\* cache under (adapter, symbol, ts) when the call returns; None is never
\* cached
FetchPriceWritesThrough ==
    /\ rt.op = "price" =>
          /\ rt.calls <= 1
          /\ rt.cached # NoPrice => (rt.calls = 0 /\ rt.price = rt.cached)
    /\ AdapterGavePrice => WrittenThrough
    /\ NoneNeverCached

\* C8 amended: as claimed, with the write-through limited to calls that use
\* the cache (use_cache is true and the manager has a cache)
FetchPriceWritesThroughWhenCaching ==
    /\ rt.op = "price" =>
          /\ rt.calls <= 1
          /\ rt.cached # NoPrice => (rt.calls = 0 /\ rt.price = rt.cached)
    /\ (AdapterGavePrice /\ rt.use_cache /\ enableCache) => WrittenThrough
    /\ NoneNeverCached

\* C8 witness: a call that uses the cache missed it, invoked the adapter once
\* and left the adapter's price in the cache
WriteThroughWitness ==
    /\ AdapterGavePrice
    /\ rt.use_cache
    /\ enableCache
    /\ rt.cached = NoPrice
    /\ WrittenThrough
    /\ rt.price = rt.outcome.price

(***************************************************************************)
(* DataManager.fetch_historical_prices                                     *)
(***************************************************************************)
MaxHistDay == 4

HistDays == 0..MaxHistDay
HistStamps == [day : HistDays, tod : Tods]

\* len(pd.date_range(start_date, end_date, freq='D')): start_date and every
\* whole day after it up to end_date
DateRangeLen(start, end) ==
    Cardinality({k \in 0..MaxHistDay :
                    ~Before(end, [day |-> start.day + k, tod |-> start.tod])})

\* len(stored_data) >= len(date_range) * 0.8
EnoughStored(stored, start, end) ==
    10 * Len(stored) >= 8 * DateRangeLen(start, end)

\* the daily frame an adapter returns for days a..b: one row per day at 00:00
DailyFrame(a, b) ==
    [i \in 1..(b - a + 1) |-> [date |-> [day |-> a + i - 1, tod |-> 0], val |-> 1]]

\* what adapter.fetch_historical_prices does: a frame of daily rows for the
\* days of the window, for all but the first or all but the last of them, an
\* empty frame, or an exception
AdapterRaised == [raised |-> TRUE, frame |-> <<>>]

HistOutcomes(start, end) ==
    {[raised |-> FALSE, frame |-> DailyFrame(a, b)] :
        a \in {start.day, start.day + 1}, b \in {end.day - 1, end.day}}
        \cup {[raised |-> FALSE, frame |-> <<>>], AdapterRaised}

\* the calls made: windows from day 0 to day 1 or to the last day, at either
\* time of day, and from day 1 to the last day, with the default adapter; two
\* windows with coingecko preferred; one window with the store left out
HistCalls ==
    {[symbol |-> "BTC", start |-> s, end |-> e, preferred |-> <<>>,
      use_storage |-> TRUE] :
        s \in {t \in HistStamps : t.day = 0},
        e \in {t \in HistStamps : t.day = MaxHistDay \/ (t.day = 1 /\ t.tod = 0)}}
    \cup {[symbol |-> "BTC", start |-> [day |-> 1, tod |-> 0],
           end |-> [day |-> MaxHistDay, tod |-> 0], preferred |-> <<>>,
           use_storage |-> TRUE]}
    \cup {[symbol |-> "BTC", start |-> [day |-> 0, tod |-> 0],
           end |-> [day |-> d, tod |-> 0], preferred |-> <<"coingecko">>,
           use_storage |-> TRUE] : d \in {1, MaxHistDay}}
    \cup {[symbol |-> "BTC", start |-> [day |-> 0, tod |-> 0],
           end |-> [day |-> MaxHistDay, tod |-> 0], preferred |-> <<>>,
           use_storage |-> FALSE]}

\* fetch_historical_prices: whether an exception reaches the caller, whether
\* the adapter was invoked, the frame returned, and the table afterwards.
\* read is the outcome of storage.get_prices, write that of store_prices.
FetchHistorical(table, call, read, outcome, write) ==
    LET adapter == AdapterName(SelectAdapter(call.symbol, call.preferred).key)
        stored == IF call.use_storage /\ read = "rows"
                  THEN GetPrices(table, call.symbol, call.start, call.end, None)
                  ELSE <<>>
        done == [raised |-> FALSE, invoked |-> FALSE,
                 frame |-> <<>>, returned |-> <<>>, table |-> table]
    IN  IF call.use_storage /\ read = "raised"
        THEN [done EXCEPT !.raised = TRUE]
        ELSE IF stored # <<>> /\ EnoughStored(stored, call.start, call.end)
        THEN [done EXCEPT !.returned = stored]
        ELSE IF outcome.raised
        THEN [done EXCEPT !.invoked = TRUE]
        ELSE IF outcome.frame # <<>> /\ call.use_storage
        THEN CASE write = "stored" ->
                    [done EXCEPT !.invoked = TRUE, !.frame = outcome.frame,
                                 !.returned = outcome.frame,
                                 !.table = Commit(table,
                                              InsertAll(table, call.symbol,
                                                        outcome.frame, adapter))]
               [] write = "error" ->
                    [done EXCEPT !.invoked = TRUE, !.frame = outcome.frame,
                                 !.returned = outcome.frame,
                                 !.table = Rollback(table, table)]
               [] write = "connect" ->
                    [done EXCEPT !.invoked = TRUE, !.frame = outcome.frame]
        ELSE [done EXCEPT !.invoked = TRUE, !.frame = outcome.frame,
                          !.returned = outcome.frame]

DoFetchHistorical ==
    /\ \E call \in HistCalls :
        \E read \in IF call.use_storage THEN {"rows", "empty", "raised"}
                    ELSE {"unused"} :
        \E outcome \in IF FetchHistorical(db, call, read, AdapterRaised,
                                          "unused").invoked
                       THEN HistOutcomes(call.start, call.end)
                       ELSE {AdapterRaised} :
        \E write \in IF outcome.frame # <<>> /\ call.use_storage
                     THEN {"stored", "error", "connect"}
                     ELSE {"unused"} :
        \E f \in {FetchHistorical(db, call, read, outcome, write)} :
             /\ db' = f.table
             /\ rt' = [op |-> "hist", call |-> call, before |-> db,
                       read |-> read, write |-> write,
                       raised |-> f.raised, invoked |-> f.invoked,
                       frame |-> f.frame, returned |-> f.returned]
    /\ UNCHANGED <<w, rd, enableCache, cacheVars, collectorVars, appVars>>

(***************************************************************************)
(* SpecRouterHist: fetch_historical_prices calls over one DataStorage.     *)
(***************************************************************************)
InitRouterHist == InitStore

NextRouterHist == DoFetchHistorical

SpecRouterHist == InitRouterHist /\ [][NextRouterHist]_vars

\* the rows the store held for the window of the last call when it was made
RowsForWindow ==
    {r \in rt.before :
        /\ r.symbol = rt.call.symbol
        /\ InWindow(ParseDate(r.date), rt.call.start, rt.call.end)}

\* C7: a call that consults the store returns the stored rows without
\* invoking an adapter when the store's rows for the window number at least
\* 80% of the window's daily slots; otherwise it invokes the adapter, and the
\* rows fetched are in the store when the call returns (unless the write
\* failed and the batch was dropped)
StoredRowsServeAtEightyPercent ==
    (rt.op = "hist" /\ rt.call.use_storage /\ rt.read = "rows") =>
        IF 10 * Cardinality(RowsForWindow)
               >= 8 * DateRangeLen(rt.call.start, rt.call.end)
        THEN /\ ~rt.invoked
             /\ Len(rt.returned) = Cardinality(RowsForWindow)
        ELSE /\ rt.invoked
             /\ rt.write = "stored" =>
                  \A i \in 1..Len(rt.frame) :
                     \E r \in db :
                        /\ r.symbol = rt.call.symbol
                        /\ ParseDate(r.date) = rt.frame[i].date
                        /\ r.val = rt.frame[i].val

(***************************************************************************)
(* DataCollector: start, stop and the collection loop, on a clock of       *)
(* seconds.                                                                *)
(***************************************************************************)
\* collection_interval_hours * 3600, scaled down
WaitSeconds == 3
\* the enabled assets of a cycle, at most
MaxAssets == 2
\* sinceStop stops counting here
MaxStopAge == 7
\* time.sleep(60) of the except branch
BackoffSeconds == 60
\* self._thread.join(timeout=5)
JoinTimeout == 5

At(pc, left) == [pc |-> pc, left |-> left]

\* start() on a collector that is not running and has no live worker
Start ==
    /\ ~running
    /\ worker.pc \in {"none", "done"}
    /\ stopper.pc # "joining"
    /\ running' = TRUE
    /\ worker' = At("check", 0)
    /\ stopper' = [pc |-> "idle", waited |-> 0]
    /\ sinceStop' = -1
    /\ UNCHANGED <<storeVars, cacheVars, routerVars, appVars>>

\* stop(): clear _running, then join the thread if there is one
Stop ==
    /\ stopper.pc # "joining"
    /\ running' = FALSE
    /\ sinceStop' = IF running THEN 0 ELSE sinceStop
    /\ stopper' = [pc |-> IF worker.pc = "none" THEN "returned" ELSE "joining",
                   waited |-> 0]
    /\ UNCHANGED <<worker, storeVars, cacheVars, routerVars, appVars>>

\* join(timeout=5) ends when the thread has ended or the timeout has passed
JoinEnds == stopper.pc = "joining" /\ (worker.pc = "done" \/ stopper.waited = JoinTimeout)

StopReturn ==
    /\ JoinEnds
    /\ stopper' = [pc |-> "returned", waited |-> stopper.waited]
    /\ UNCHANGED <<running, worker, sinceStop, storeVars, cacheVars, routerVars, appVars>>

\* "while self._running:" and the start of _collect_all_enabled:
\* get_enabled_assets gives the assets of the cycle, or raises, which the
\* except branch of the loop answers with time.sleep(60)
LoopCheck ==
    /\ worker.pc = "check"
    /\ IF ~running
       THEN worker' = At("done", 0)
       ELSE \/ \E n \in 0..MaxAssets : worker' = At("assets", n)
            \/ worker' = At("backoff", BackoffSeconds)
    /\ UNCHANGED <<running, stopper, sinceStop, storeVars, cacheVars, routerVars, appVars>>

\* "for asset_config in assets: if not self._running: break", then either
\* _collect_asset or, after the loop, the wait for the next cycle
AssetNext ==
    /\ worker.pc = "assets"
    /\ worker' = IF worker.left = 0 \/ ~running
                 THEN At("waiting", WaitSeconds)
                 ELSE At("collecting", worker.left)
    /\ UNCHANGED <<running, stopper, sinceStop, storeVars, cacheVars, routerVars, appVars>>

\* _collect_asset returns, or raises and is logged: the next asset is due
CollectDone ==
    /\ worker.pc = "collecting"
    /\ worker' = At("assets", worker.left - 1)
    /\ UNCHANGED <<running, stopper, sinceStop, storeVars, cacheVars, routerVars, appVars>>

\* "for _ in range(wait_seconds): if not self._running: break; time.sleep(1)"
WaitCheck ==
    /\ worker.pc = "waiting"
    /\ worker' = IF worker.left = 0 \/ ~running
                 THEN At("check", 0)
                 ELSE At("sleep1", worker.left)
    /\ UNCHANGED <<running, stopper, sinceStop, storeVars, cacheVars, routerVars, appVars>>

\* the worker is in a call that takes time, or there is no worker
Blocked == worker.pc \in {"none", "sleep1", "backoff", "collecting", "done"}

\* one second passes: a sleep of one second ends, the back-off and the join
\* have one second less to go. Steps that take no time come first.
Second ==
    /\ Blocked
    /\ ~JoinEnds
    /\ worker' = CASE worker.pc = "sleep1" -> At("waiting", worker.left - 1)
                   [] worker.pc = "backoff" ->
                        IF worker.left = 1 THEN At("check", 0)
                        ELSE At("backoff", worker.left - 1)
                   [] OTHER -> worker
    /\ stopper' = IF stopper.pc = "joining"
                  THEN [stopper EXCEPT !.waited = @ + 1]
                  ELSE stopper
    /\ sinceStop' = IF sinceStop >= 0 /\ sinceStop < MaxStopAge
                    THEN sinceStop + 1
                    ELSE sinceStop
    /\ UNCHANGED <<running, storeVars, cacheVars, routerVars, appVars>>

(***************************************************************************)
(* SpecCollector: one DataCollector, started and stopped by its owner.     *)
(***************************************************************************)
InitCollector == InitStore

NextCollector ==
    \/ Start
    \/ Stop
    \/ StopReturn
    \/ LoopCheck
    \/ AssetNext
    \/ CollectDone
    \/ WaitCheck
    \/ Second

SpecCollector == InitCollector /\ [][NextCollector]_vars

\* C10: once stop() has been signalled for a second or more the worker is in
\* no sleep: it left the one it was in and, whatever call was in flight,
\* enters no other; and stop() does not wait beyond the join window
StopEndsWorker ==
    /\ sinceStop >= 1 => worker.pc \notin {"sleep1", "backoff"}
    /\ stopper.pc \in {"joining", "returned"} => stopper.waited <= JoinTimeout

(***************************************************************************)
(* DataCollector._collect_asset over the asset configuration, the data     *)
(* manager and the store.                                                  *)
(***************************************************************************)
\* last_collected is set whatever the manager returned
UpdateAlways(returned) == TRUE

\* if not historical_data.empty
ShouldUpdate(returned) == returned # <<>>

\* AssetConfigManager.update_last_collected
UpdateLastCollected(cfg, symbol, timestamp) ==
    IF symbol \in DOMAIN cfg
    THEN [cfg EXCEPT ![symbol].last_collected = timestamp]
    ELSE cfg

\* the window of _collect_asset: from last_collected, or from a year before
\* now on the first collection, to now
CollectWindow(config, t) ==
    [start |-> IF config.last_collected # NoDate
               THEN config.last_collected
               ELSE [day |-> t.day - YearDays, tod |-> t.tod],
     end |-> t]

\* the call _collect_asset makes: no preferred adapters, the store in use
CollectCall(symbol, config, t) ==
    [symbol |-> symbol, start |-> CollectWindow(config, t).start,
     end |-> CollectWindow(config, t).end, preferred |-> <<>>,
     use_storage |-> TRUE]

\* _collect_asset at time t: what the manager did, and the table and the
\* configuration afterwards; an exception of the manager goes to the caller
CollectAsset(table, cfg, symbol, t, read, outcome, write) ==
    LET call == CollectCall(symbol, cfg[symbol], t)
        f == FetchHistorical(table, call, read, outcome, write)
    IN  [call |-> call, fetch |-> f, table |-> f.table,
         cfg |-> IF ~f.raised /\ ShouldUpdate(f.returned)
                 THEN UpdateLastCollected(cfg, symbol, call.end)
                 ELSE cfg]

\* the record of a _collect_asset call
PassOf(symbol, c, read, write, cfg, t) ==
    [op |-> "collect", symbol |-> symbol, call |-> c.call, at |-> t,
     was |-> cfg[symbol].last_collected,
     read |-> read, write |-> write, raised |-> c.fetch.raised,
     invoked |-> c.fetch.invoked, frame |-> c.fetch.frame,
     returned |-> c.fetch.returned]

\* one _collect_asset call for an enabled asset, from a pass of the loop or of
\* collect_now
DoCollectAsset ==
    /\ \E symbol \in {"BTC"} :
        /\ assets[symbol].enabled
        /\ \E read \in {"rows", "empty", "raised"},
              write \in {"stored", "error", "connect"} :
           \E outcome \in HistOutcomes(CollectWindow(assets[symbol], clock).start,
                                       clock) :
           \E c \in {CollectAsset(db, assets, symbol, clock, read, outcome, write)} :
             /\ db' = c.table
             /\ assets' = c.cfg
             /\ pass' = PassOf(symbol, c, read, write, assets, clock)
    /\ UNCHANGED <<w, rd, clock, cacheVars, routerVars, collectorVars, sideVars>>

\* time passes: to a later time of the day, or to the next midnight
ClockTick ==
    /\ clock.day < MaxHistDay \/ clock.tod = 0
    /\ clock' = IF clock.tod = 0 THEN [clock EXCEPT !.tod = 1]
                ELSE [day |-> clock.day + 1, tod |-> 0]
    /\ UNCHANGED <<assets, pass, storeVars, cacheVars, routerVars, collectorVars,
                   sideVars>>

(***************************************************************************)
(* SpecCollect: collections of one asset as the days pass.                 *)
(***************************************************************************)
InitCollect == InitStore

NextCollect ==
    \/ DoCollectAsset
    \/ ClockTick

SpecCollect == InitCollect /\ [][NextCollect]_vars

\* C11: after a collection of an asset, its last_collected is that pass's now
\* when the manager returned a non-empty batch, and is what it was before
\* when the manager raised or returned an empty batch
LastCollectedIffBatch ==
    pass.op = "collect" =>
        IF ~pass.raised /\ pass.returned # <<>>
        THEN assets[pass.symbol].last_collected = pass.call.end
        ELSE assets[pass.symbol].last_collected = pass.was

\* C11 witness: a collection returned a batch and moved last_collected from an
\* earlier time to its now
LastCollectedAdvancedWitness ==
    /\ pass.op = "collect"
    /\ pass.returned # <<>>
    /\ pass.was # NoDate
    /\ Before(pass.was, pass.call.end)
    /\ assets[pass.symbol].last_collected = pass.call.end

\* the rows of the store that hold a frame's observations for a symbol
Persisted(symbol, frame) ==
    \A i \in 1..Len(frame) :
        \E r \in db :
            /\ r.symbol = symbol
            /\ ParseDate(r.date) = frame[i].date
            /\ r.val = frame[i].val

\* C12: a collection fetches the window [last_collected or now - 365d, now]
\* through the manager, and when it advances last_collected the rows it
\* obtained for the window are in the store
RowsPersistedBeforeAdvance ==
    pass.op = "collect" =>
        /\ pass.call.end = pass.at
        /\ pass.call.start = IF pass.was # NoDate THEN pass.was
                             ELSE [day |-> pass.at.day - YearDays,
                                   tod |-> pass.at.tod]
        /\ assets[pass.symbol].last_collected # pass.was =>
              Persisted(pass.symbol, pass.returned)

(***************************************************************************)
(* DataCollector._collection_loop and _collect_all_enabled, asset by       *)
(* asset: the snapshot of the enabled assets, the loop over it and the     *)
(* trap around each collection.                                            *)
(***************************************************************************)
\* the order of the keys of _assets: the order in which they were inserted
DictOrder == <<"BTC", "ETH", "SPY">>

\* the rank of a symbol among the configured ones under str comparison
SymbolRank(symbol) ==
    CASE symbol = "BTC" -> 1
      [] symbol = "ETH" -> 2
      [] symbol = "SPY" -> 3

\* the key of sorted(): (x.priority, x.symbol)
KeyLeq(cfg, a, b) ==
    \/ cfg[a].priority < cfg[b].priority
    \/ cfg[a].priority = cfg[b].priority /\ SymbolRank(a) <= SymbolRank(b)

\* sorted(assets, key=lambda x: (x.priority, x.symbol))
RECURSIVE SortedAssets(_, _)
SortedAssets(cfg, symbols) ==
    IF symbols = {} THEN <<>>
    ELSE LET first == CHOOSE a \in symbols : \A b \in symbols : KeyLeq(cfg, a, b)
         IN  <<first>> \o SortedAssets(cfg, symbols \ {first})

\* the symbols of a sequence
Range(seq) == {seq[i] : i \in 1..Len(seq)}

\* the assets enabled in a configuration
EnabledSet(cfg) == {s \in AssetSymbols : cfg[s].enabled}

\* an error of _collect_asset ends the cycle
AbandonOnError(todo, raised) == IF raised THEN <<>> ELSE Tail(todo)

\* "except Exception as e: log" inside the for loop: the next asset is due
\* whether _collect_asset returned or raised
NextTodo(todo, raised) == Tail(todo)

\* start() on a collector that is not running and has no live worker
CycleStart ==
    /\ ~running
    /\ worker.pc \in {"none", "done"}
    /\ running' = TRUE
    /\ worker' = [pc |-> "check"]
    /\ UNCHANGED <<stopper, sinceStop, storeVars, cacheVars, routerVars, appVars>>

\* stop(): clear _running
CycleStop ==
    /\ running
    /\ running' = FALSE
    /\ UNCHANGED <<worker, stopper, sinceStop, storeVars, cacheVars, routerVars,
                   appVars>>

\* "while self._running:", then the call of get_enabled_assets begins
CycleCheck ==
    /\ worker.pc = "check"
    /\ worker' = IF ~running THEN [pc |-> "done"]
                 ELSE [pc |-> "scan", scan |-> 1, snap |-> {},
                       views |-> {EnabledSet(assets)}]
    /\ UNCHANGED <<running, stopper, sinceStop, storeVars, cacheVars, routerVars,
                   appVars>>

\* one turn of "[config for config in self._assets.values() if
\* config.enabled]": the comprehension holds no lock, so the configuration
\* may change between two turns
ScanNext ==
    /\ worker.pc = "scan"
    /\ worker.scan <= Len(DictOrder)
    /\ worker' = [worker EXCEPT
                    !.scan = @ + 1,
                    !.snap = IF assets[DictOrder[worker.scan]].enabled
                             THEN @ \cup {DictOrder[worker.scan]} ELSE @]
    /\ UNCHANGED <<running, stopper, sinceStop, storeVars, cacheVars, routerVars,
                   appVars>>

\* the end of get_enabled_assets: sorted() gives the list of the cycle, or
\* raises (a priority that does not compare), which the loop answers with
\* the back-off
ScanEnd ==
    /\ worker.pc = "scan"
    /\ worker.scan > Len(DictOrder)
    /\ \/ worker' = [pc |-> "iterate", cycle |-> SortedAssets(assets, worker.snap),
                     todo |-> SortedAssets(assets, worker.snap),
                     snap |-> worker.snap, views |-> worker.views,
                     visited |-> <<>>, broke |-> FALSE]
       \/ worker' = [pc |-> "backoff"]
    /\ UNCHANGED <<running, stopper, sinceStop, storeVars, cacheVars, routerVars,
                   appVars>>

\* the adapter outcomes of a cycle: an exception, or the frame of the window
CycleOutcomes(start, end) ==
    {AdapterRaised, [raised |-> FALSE, frame |-> DailyFrame(start.day, end.day)]}

\* one turn of "for asset_config in assets": the break on a cleared
\* _running, or _collect_asset inside its try
IterateNext(reads, failing) ==
    /\ worker.pc = "iterate"
    /\ worker.todo # <<>>
    /\ IF ~running
       THEN /\ worker' = [worker EXCEPT !.pc = "wait", !.broke = TRUE]
            /\ UNCHANGED <<db, assets, pass>>
       ELSE LET symbol == Head(worker.todo)
                window == CollectWindow(assets[symbol], clock)
            IN  \E read \in reads :
                \E outcome \in IF failing THEN {AdapterRaised}
                               ELSE CycleOutcomes(window.start, window.end) :
                \E c \in {CollectAsset(db, assets, symbol, clock, read, outcome,
                                       "stored")} :
                  /\ db' = c.table
                  /\ assets' = c.cfg
                  /\ pass' = PassOf(symbol, c, read, "stored", assets, clock)
                  /\ worker' = [worker EXCEPT
                                  !.todo = NextTodo(@, c.fetch.raised),
                                  !.visited = Append(@, [symbol |-> symbol,
                                                         raised |-> c.fetch.raised])]
    /\ UNCHANGED <<w, rd, clock, running, stopper, sinceStop, cacheVars, routerVars,
                   sideVars>>

\* the for loop is over: the wait for the next cycle begins
IterateEnd ==
    /\ worker.pc = "iterate"
    /\ worker.todo = <<>>
    /\ worker' = [worker EXCEPT !.pc = "wait"]
    /\ UNCHANGED <<running, stopper, sinceStop, storeVars, cacheVars, routerVars,
                   appVars>>

\* the wait is over (the interval has passed, or _running was cleared), or
\* the back-off is: the loop tests _running again
CycleAgain ==
    /\ worker.pc \in {"wait", "backoff"}
    /\ worker' = [pc |-> "check"]
    /\ UNCHANGED <<running, stopper, sinceStop, storeVars, cacheVars, routerVars,
                   appVars>>

(***************************************************************************)
(* SpecCycle: the collection loop over three enabled assets whose          *)
(* collections return, come back empty or raise.                           *)
(***************************************************************************)
CycleIterate == IterateNext({"rows", "raised"}, FALSE)

InitCycle == InitStore

NextCycle ==
    \/ CycleStart
    \/ CycleStop
    \/ CycleCheck
    \/ ScanNext
    \/ ScanEnd
    \/ CycleIterate
    \/ IterateEnd
    \/ CycleAgain

SpecCycle == InitCycle /\ [][NextCycle]_vars

\* the symbols attempted so far in the cycle, in order
Attempted == [i \in 1..Len(worker.visited) |-> worker.visited[i].symbol]

\* C13: whatever collections raised, the assets attempted and the assets
\* still to come make up the list of the cycle until stop() breaks the
\* loop, so that a cycle that ends unbroken has attempted every asset of its
\* list; and the worker ends only after _running was cleared
ErrorsTrappedPerAsset ==
    /\ (worker.pc \in {"iterate", "wait"} /\ ~worker.broke) =>
          Attempted \o worker.todo = worker.cycle
    /\ (worker.pc = "wait" /\ ~worker.broke) => Attempted = worker.cycle
    /\ worker.pc = "done" => ~running

\* C13 witness: a cycle ended with every asset of its list attempted although
\* the collection of the first one raised
TrappedErrorWitness ==
    /\ worker.pc = "wait"
    /\ ~worker.broke
    /\ Len(worker.visited) = 3
    /\ worker.visited[1].raised
    /\ ~worker.visited[3].raised
    /\ Attempted = worker.cycle

(***************************************************************************)
(* SpecSnapshot: the collection loop while an administrator enables and    *)
(* disables assets. The store cannot be opened, so that collections change *)
(* neither the store nor the configuration.                                *)
(***************************************************************************)
\* what the snapshot in the making has had before it: the sets of enabled
\* assets since get_enabled_assets was called
Viewing(cfg) ==
    IF worker.pc = "scan"
    THEN [worker EXCEPT !.views = @ \cup {EnabledSet(cfg)}]
    ELSE worker

\* enable_asset / disable_asset on a configured symbol, from another thread
SetEnabled(symbol, flag) ==
    /\ assets[symbol].enabled # flag
    /\ assets' = [assets EXCEPT ![symbol].enabled = flag]
    /\ worker' = Viewing(assets')
    /\ UNCHANGED <<clock, pass, running, stopper, sinceStop, storeVars, cacheVars,
                   routerVars, sideVars>>

EnableAsset == \E symbol \in AssetSymbols : SetEnabled(symbol, TRUE)

DisableAsset == \E symbol \in AssetSymbols : SetEnabled(symbol, FALSE)

SnapshotIterate == IterateNext({"raised"}, TRUE)

\* BTC of medium priority, ETH and SPY of high priority; any of them enabled
InitSnapshot ==
    /\ StoreStart
    /\ CacheOff
    /\ RouterStart
    /\ CollectorStart
    /\ assets \in [AssetSymbols -> [enabled : BOOLEAN, priority : {1, 2},
                                    last_collected : {NoDate}]]
    /\ assets["BTC"].priority = 2
    /\ assets["ETH"].priority = 1
    /\ assets["SPY"].priority = 1
    /\ clock = [day |-> YearDays, tod |-> 0]
    /\ pass = NoCall
    /\ SideStart

NextSnapshot ==
    \/ CycleStart
    \/ CycleStop
    \/ CycleCheck
    \/ ScanNext
    \/ ScanEnd
    \/ SnapshotIterate
    \/ IterateEnd
    \/ CycleAgain
    \/ EnableAsset
    \/ DisableAsset

SpecSnapshot == InitSnapshot /\ [][NextSnapshot]_vars

\* a sequence of symbols in (priority, symbol) order, without repetition
InKeyOrder(seq) ==
    \A i \in 1..Len(seq), j \in 1..Len(seq) :
        i < j => (seq[i] # seq[j] /\ KeyLeq(assets, seq[i], seq[j]))

\* C14: the list a cycle iterates is the set of assets that were enabled at
\* one moment of the taking of the snapshot, in (priority, symbol) order, and
\* the assets are visited in the order of the list
ConsistentSnapshotInOrder ==
    worker.pc \in {"iterate", "wait"} =>
        /\ Range(worker.cycle) \in worker.views
        /\ InKeyOrder(worker.cycle)
        /\ \A i \in 1..Len(worker.visited) :
              worker.visited[i].symbol = worker.cycle[i]


(***************************************************************************)
(* DataCollector.collect_now: a collection pass on the caller's thread.    *)
(***************************************************************************)
\* the symbols argument of collect_now: None, or a list of symbols
ManualArgs == {<<>>, <<"SPY", "BTC">>, <<"ETH">>}

\* a pass that gives up at the first asset whose collection raised
StopOnError(todo, raised) == IF raised THEN <<>> ELSE Tail(todo)

\* "for asset_config in assets" with its try / except: the next asset is
\* attempted whether or not this one raised
ManualTodo(todo, raised) == Tail(todo)

RECURSIVE EnabledOf(_, _)
\* [get_asset_config(s) for s in symbols if get_asset_config(s) and
\*  get_asset_config(s).enabled]: the enabled ones, in the order given
EnabledOf(cfg, symbols) ==
    IF symbols = <<>> THEN <<>>
    ELSE IF Head(symbols) \in DOMAIN cfg /\ cfg[Head(symbols)].enabled
         THEN <<Head(symbols)>> \o EnabledOf(cfg, Tail(symbols))
         ELSE EnabledOf(cfg, Tail(symbols))

\* the assets of a collect_now call: those named, or every enabled asset
ManualAssets(cfg, symbols) ==
    IF symbols # <<>> THEN EnabledOf(cfg, symbols)
    ELSE SortedAssets(cfg, EnabledSet(cfg))

\* collect_now is called: the list of assets of the pass is made
ManualBegin ==
    /\ manual.pc \in {"idle", "returned"}
    /\ \E symbols \in ManualArgs :
         manual' = [op |-> "collect_now", pc |-> "passing", symbols |-> symbols,
                    list |-> ManualAssets(assets, symbols),
                    todo |-> ManualAssets(assets, symbols), visited |-> <<>>]
    /\ UNCHANGED <<deskVars, configVars, adapterVars, signalVars, storeVars, cacheVars,
                   routerVars, collectorVars>>

\* one turn of the for loop of collect_now: _collect_asset inside its try,
\* with no test of _running
ManualNext ==
    /\ manual.pc = "passing"
    /\ manual.todo # <<>>
    /\ LET symbol == Head(manual.todo)
           window == CollectWindow(assets[symbol], clock)
       IN  \E read \in {"rows", "raised"} :
           \E outcome \in CycleOutcomes(window.start, window.end) :
           \E c \in {CollectAsset(db, assets, symbol, clock, read, outcome,
                                  "stored")} :
             /\ db' = c.table
             /\ assets' = c.cfg
             /\ pass' = PassOf(symbol, c, read, "stored", assets, clock)
             /\ manual' = [manual EXCEPT
                             !.todo = ManualTodo(@, c.fetch.raised),
                             !.visited = Append(@, [symbol |-> symbol,
                                                    raised |-> c.fetch.raised])]
    /\ UNCHANGED <<deskVars, w, rd, clock, adapterVars, signalVars, cacheVars, routerVars,
                   collectorVars>>

\* the for loop is over: collect_now returns
ManualReturn ==
    /\ manual.pc = "passing"
    /\ manual.todo = <<>>
    /\ manual' = [manual EXCEPT !.pc = "returned"]
    /\ UNCHANGED <<deskVars, configVars, adapterVars, signalVars, storeVars, cacheVars,
                   routerVars, collectorVars>>

(***************************************************************************)
(* SpecManual: collect_now calls beside the collection loop, started,      *)
(* stopped or never started.                                               *)
(***************************************************************************)
ManualIterate == IterateNext({"rows"}, FALSE)

InitManual == InitStore

NextManual ==
    \/ CycleStart
    \/ CycleStop
    \/ CycleCheck
    \/ ScanNext
    \/ ScanEnd
    \/ ManualIterate
    \/ IterateEnd
    \/ CycleAgain
    \/ ManualBegin
    \/ ManualNext
    \/ ManualReturn

SpecManual == InitManual /\ [][NextManual]_vars

\* the symbols of the _collect_asset calls of a pass, in the order made
SymbolsOf(visited) == [i \in 1..Len(visited) |-> visited[i].symbol]

\* a step of collect_now
ManualStep == manual' # manual

RateLimit == 2
\* the replies a paginated fetch may read
MaxPages == 2

\* the window of _check_rate_limit, in seconds
RateWindow == 60
\* the wall clock advances by a third of the window, up to two windows
LimStep == RateWindow \div 3
MaxClock == 2 * RateWindow
\* AlphaVantageAdapter._min_request_interval
MinRequestInterval == 12
\* timedelta.seconds is the seconds within the day of the difference
DaySeconds == 86400

Adapters == {"binance", "yahoofinance", "coingecko", "alphavantage", "polygon",
             "coinmarketcap"}

\* the adapters whose fetches return at once without self.api_key
NeedsKey == {"alphavantage", "polygon", "coinmarketcap"}

\* fetch_price without and with a timestamp, and fetch_historical_prices
FetchKinds == {"spot", "spot_at", "history"}

\* what a request meets: the data asked for, data with more to page through,
\* a well-formed reply without the data, or an exception (the network, the
\* HTTP status, or the parsing of the reply)
Replies == {"data", "more", "nodata", "error"}

\* the replies of one fetch, in the order its requests meet them; the
\* pagination ends within them
Envs == {env \in [1..MaxPages -> Replies] : env[MaxPages] # "more"}

\* (a - b).seconds for datetimes b <= a
Seconds(delta) == delta % DaySeconds

\* BaseDataAdapter._check_rate_limit
CheckRateLimit(l) ==
    LET fresh == IF Seconds(l.at - l.window_start) >= RateWindow
                 THEN [l EXCEPT !.request_count = 0, !.window_start = l.at,
                                !.issued = 0]
                 ELSE l
        wait_time == RateWindow - Seconds(l.at - fresh.window_start)
        waited == IF fresh.request_count >= RateLimit /\ wait_time > 0
                  THEN [fresh EXCEPT !.at = @ + wait_time, !.request_count = 0,
                                     !.window_start = l.at + wait_time,
                                     !.issued = 0]
                  ELSE fresh
    IN  [waited EXCEPT !.request_count = @ + 1, !.last = "datetime"]

\* requests.get / yfinance: one network operation, in the window it falls in
Request(l) == [l EXCEPT !.issued = @ + 1]

\* a handler that lets the exception through
Escaping(kind) == "raised"

\* None from fetch_price, an empty frame from fetch_historical_prices
Nothing(kind) == IF kind = "history" THEN "empty" ELSE "none"

\* "except Exception as e": the error is logged and nothing is returned
Trapped(kind) == Nothing(kind)

\* the return of a fetch whose request met the reply
Returned(kind, reply) ==
    CASE reply = "error" -> Trapped(kind)
      [] reply = "nodata" -> Nothing(kind)
      [] OTHER -> IF kind = "history" THEN "frame" ELSE "value"

\* the outcome of a fetch: the limiter, the adapter's fields, what came back
Outcome(l, a, kind, result) ==
    [lim |-> l, ad |-> [a EXCEPT !.op = kind, !.result = result]]

\* BinanceAdapter.fetch_price: one check, one request
BinanceSpot(l, a, kind, env) ==
    Outcome(Request(CheckRateLimit(l)), a, kind,
            Returned(kind, env[1]))

RECURSIVE KlinePages(_, _, _)
\* the while loop of BinanceAdapter.fetch_historical_prices from its i-th
\* request on: a request per page, until a page is the last, is empty or
\* raises
KlinePages(l, env, i) ==
    LET sent == Request(l)
    IN  IF env[i] = "more" /\ i < MaxPages THEN KlinePages(sent, env, i + 1)
        ELSE [lim |-> sent,
              result |-> CASE env[i] = "error" -> Trapped("history")
                           [] env[i] = "nodata" /\ i = 1 -> "empty"
                           [] OTHER -> "frame"]

\* BinanceAdapter.fetch_historical_prices: one check, then the pages
BinanceHistory(l, a, kind, env) ==
    LET pages == KlinePages(CheckRateLimit(l), env, 1)
    IN  Outcome(pages.lim, a, kind, pages.result)

\* YahooFinanceAdapter.fetch_price: one check, the request (ticker.history
\* of the day, or ticker.info), and the fallback ticker.history when that
\* had no price
YahooSpot(l, a, kind, env) ==
    LET first == Request(CheckRateLimit(l))
    IN  IF env[1] = "nodata"
        THEN Outcome(Request(first), a, kind, Returned(kind, env[2]))
        ELSE Outcome(first, a, kind, Returned(kind, env[1]))

\* YahooFinanceAdapter.fetch_historical_prices: one check, one request
YahooHistory(l, a, kind, env) ==
    Outcome(Request(CheckRateLimit(l)), a, kind,
            Returned(kind, env[1]))

\* CoinGeckoAdapter._get_symbol_id_map and the lookup of the symbol in it:
\* the map kept from an earlier call, or one more check and request whose
\* reply is kept (a list with or without the symbol) or, on an error,
\* replaced for this call by the built-in mappings
GeckoMap(l, a, env) ==
    IF a.map # "unset" THEN [lim |-> l, map |-> a.map, found |-> a.map = "full",
                             next |-> 1]
    ELSE [lim |-> Request(CheckRateLimit(l)),
          map |-> CASE env[1] = "error" -> "unset"
                    [] env[1] = "nodata" -> "bare"
                    [] OTHER -> "full",
          found |-> env[1] # "nodata", next |-> 2]

\* CoinGeckoAdapter.fetch_price / fetch_historical_prices: one check, the
\* symbol map, and one request when the symbol has an id
GeckoFetch(l, a, kind, env) ==
    LET ids == GeckoMap(CheckRateLimit(l), a, env)
        kept == [a EXCEPT !.map = ids.map]
    IN  IF ~ids.found THEN Outcome(ids.lim, kept, kind, Nothing(kind))
        ELSE Outcome(Request(ids.lim), kept, kind, Returned(kind, env[ids.next]))

\* _make_request of PolygonAdapter and CoinMarketCapAdapter: one check and
\* one request; an exception is trapped here and None returned
MakeRequest(l) == Request(CheckRateLimit(l))

\* PolygonAdapter.fetch_price: the day's aggregate when a timestamp is
\* given; else the last trade and, when that gave nothing, today's aggregate
PolygonSpot(l, a, kind, env) ==
    IF a.key = "absent" THEN Outcome(l, a, kind, Nothing(kind))
    ELSE IF kind = "spot" /\ env[1] \in {"nodata", "error"}
         THEN Outcome(MakeRequest(MakeRequest(l)), a, kind, Returned(kind, env[2]))
         ELSE Outcome(MakeRequest(l), a, kind, Returned(kind, env[1]))

\* PolygonAdapter.fetch_historical_prices: one _make_request
PolygonHistory(l, a, kind, env) ==
    IF a.key = "absent" THEN Outcome(l, a, kind, Nothing(kind))
    ELSE Outcome(MakeRequest(l), a, kind, Returned(kind, env[1]))

\* CoinMarketCapAdapter._get_symbol_id_map: the map kept from an earlier
\* call, or one _make_request whose reply is kept only if it has the data
CmcMap(l, a, env) ==
    IF a.map # "unset" THEN [lim |-> l, map |-> a.map, found |-> TRUE, next |-> 1]
    ELSE [lim |-> MakeRequest(l),
          map |-> IF env[1] \in {"data", "more"} THEN "full" ELSE "unset",
          found |-> env[1] \in {"data", "more"}, next |-> 2]

\* CoinMarketCapAdapter.fetch_price / fetch_historical_prices: nothing
\* without the key or the id; no historical spot price; the latest quote;
\* a history whose records are never parsed
CmcFetch(l, a, kind, env) ==
    IF a.key = "absent" THEN Outcome(l, a, kind, Nothing(kind))
    ELSE LET ids == CmcMap(l, a, env)
             kept == [a EXCEPT !.map = ids.map]
         IN  IF ~ids.found \/ kind = "spot_at"
             THEN Outcome(ids.lim, kept, kind, Nothing(kind))
             ELSE Outcome(MakeRequest(ids.lim), kept, kind,
                          IF kind = "history" THEN "empty"
                          ELSE Returned(kind, env[ids.next]))

\* AlphaVantageAdapter._make_request: the minimum interval since the last
\* request (time.time() minus _last_request_time, which _check_rate_limit
\* leaves a datetime when the request after it failed: a TypeError), then
\* one check and one request, whose time is kept when its reply was read
AlphaRequest(l, reply) ==
    LET elapsed == l.at - l.lastAt
        paced == IF l.last = "float" /\ elapsed < MinRequestInterval
                 THEN [l EXCEPT !.at = l.lastAt + MinRequestInterval]
                 ELSE l
        sent == Request(CheckRateLimit(paced))
    IN  IF reply = "error" THEN sent
        ELSE [sent EXCEPT !.last = "float", !.lastAt = sent.at]

\* AlphaVantageAdapter.fetch_price / fetch_historical_prices
AlphaFetch(l, a, kind, env) ==
    IF a.key = "absent" THEN Outcome(l, a, kind, Nothing(kind))
    ELSE IF l.last = "datetime" THEN Outcome(l, a, kind, Trapped(kind))
    ELSE Outcome(AlphaRequest(l, env[1]), a, kind, Returned(kind, env[1]))

\* fetch_price and fetch_historical_prices of the adapter followed
Fetch(l, a, kind, env) ==
    CASE a.name = "binance" ->
           IF kind = "history" THEN BinanceHistory(l, a, kind, env)
           ELSE BinanceSpot(l, a, kind, env)
      [] a.name = "yahoofinance" ->
           IF kind = "history" THEN YahooHistory(l, a, kind, env)
           ELSE YahooSpot(l, a, kind, env)
      [] a.name = "coingecko" -> GeckoFetch(l, a, kind, env)
      [] a.name = "polygon" ->
           IF kind = "history" THEN PolygonHistory(l, a, kind, env)
           ELSE PolygonSpot(l, a, kind, env)
      [] a.name = "coinmarketcap" -> CmcFetch(l, a, kind, env)
      [] OTHER -> AlphaFetch(l, a, kind, env)

\* a fetch of the adapter, meeting any replies
DoFetch ==
    /\ ad # NoCall
    /\ lim.at <= MaxClock
    /\ \E kind \in FetchKinds, env \in Envs :
       \E f \in {Fetch(lim, ad, kind, env)} :
         /\ lim' = f.lim
         /\ ad' = [f.ad EXCEPT !.first = env[1]]
    /\ UNCHANGED <<deskVars, configVars, manualVars, signalVars, storeVars, cacheVars,
                   routerVars, collectorVars>>

\* LimStep seconds pass between two fetches
AdapterTick ==
    /\ lim.at + LimStep <= MaxClock
    /\ lim' = [lim EXCEPT !.at = @ + LimStep]
    /\ UNCHANGED <<deskVars, ad, configVars, manualVars, signalVars, storeVars, cacheVars,
                   routerVars, collectorVars>>

(***************************************************************************)
(* SpecAdapter: one of the six adapters, constructed with or without its   *)
(* key, and its fetches as time passes.                                    *)
(***************************************************************************)
InitAdapter ==
    /\ StoreStart
    /\ CacheOff
    /\ RouterStart
    /\ CollectorStart
    /\ ConfigStart
    /\ ManualStart
    /\ SignalStart
    /\ DeskStart
    /\ lim = [at |-> 0, window_start |-> 0, request_count |-> 0, issued |-> 0,
              last |-> "none", lastAt |-> 0]
    /\ \E name \in Adapters, key \in {"absent", "present"} :
         /\ name \in {"binance", "yahoofinance"} => key = "absent"
         /\ ad = [name |-> name, key |-> key, map |-> "unset", op |-> "new",
                  first |-> "none", result |-> "none"]

NextAdapter == DoFetch \/ AdapterTick

SpecAdapter == InitAdapter /\ [][NextAdapter]_vars

\* C16: in the window of the limiter, the network operations issued are at
\* most the tokens consumed (each operation first consumes one), the tokens
\* consumed never exceed rate_limit_per_minute (the call after the last
\* token waits for the next window), and so no more than
\* rate_limit_per_minute operations are issued in the window.
TokenBeforeEveryOperation ==
    /\ lim.issued <= lim.request_count
    /\ lim.request_count <= RateLimit
    /\ lim.issued <= RateLimit

\* C17: no fetch of any adapter lets an exception escape: what comes back is
\* a price or None from fetch_price, a frame or an empty frame from
\* fetch_historical_prices; a request that raised gives None / empty, and so
\* does every fetch of an adapter constructed without the key it needs.
NoFetchRaises ==
    ad # NoCall /\ ad.op # "new" =>
        /\ ad.result # "raised"
        /\ ad.result \in (IF ad.op = "history" THEN {"frame", "empty"}
                          ELSE {"value", "none"})
        /\ ad.name \in NeedsKey /\ ad.key = "absent" =>
               ad.result = Nothing(ad.op) /\ lim.issued = 0

\* an adapter with its key has made a request that raised (the check before
\* it left a datetime in _last_request_time), and its fetch came back empty
TrappedFetchWitness ==
    /\ ad # NoCall
    /\ ad.name = "alphavantage"
    /\ ad.key = "present"
    /\ ad.op = "history"
    /\ ad.first = "error"
    /\ lim.last = "datetime"
    /\ lim.issued > 0
    /\ ad.result = "empty"


(***************************************************************************)
(* The signal layer: SignalEngine (src/signals/signal_engine.py),          *)
(* TradingSignal, the bias filter of SignalGenerator and the refinement of *)
(* AISignalRefiner.  Percentages are counted in thousandths of a percent,  *)
(* fractions (position size) in units of 1e-5, confidences in units of     *)
(* 1e-4, risk/reward thresholds in tenths and time in minutes.             *)
(***************************************************************************)
\* SignalEngine.max_position_size_pct = 0.02
MaxPositionSizePct == 2000
\* the bounds of TradingSignal.is_valid: 0.01 and 0.02
ValidSizeMin == 1000
ValidSizeMax == 2000
\* SignalEngine.min_risk_reward = 1.5
MinRiskReward == 15
\* BiasDetector.MAX_POSITION_SIZE = 0.20
BiasMaxPositionSize == 20000
\* expiry is None
NoExpiry == -1

Categories == {"scalp", "intraday", "swing", "long_term"}

\* TradeCategoryClassifier.CATEGORIES[category].take_profit_pct
TakeProfitPct(category) ==
    CASE category = "scalp" -> <<100, 500>>
      [] category = "intraday" -> <<500, 2000>>
      [] category = "swing" -> <<2000, 10000>>
      [] OTHER -> <<10000, 50000>>

\* TradeCategoryClassifier.CATEGORIES[category].stop_loss_pct
StopLossPct(category) ==
    CASE category = "scalp" -> <<50, 200>>
      [] category = "intraday" -> <<200, 1000>>
      [] category = "swing" -> <<1000, 5000>>
      [] OTHER -> <<5000, 15000>>

\* TradeCategoryClassifier.CATEGORIES[category].time_horizon_max: 15
\* minutes, 24 hours, 4 weeks, 365 days
MaxHorizon(category) ==
    CASE category = "scalp" -> 15
      [] category = "intraday" -> 24 * 60
      [] category = "swing" -> 28 * 24 * 60
      [] OTHER -> 365 * 24 * 60

\* what the data manager and the indicators give for a symbol: whether 20
\* rows or more came back and whether 50 did, whether a price did, the RSI
\* (-1: None), the sign of the MACD (0: None or zero), the order of the
\* moving averages, and min(volatility / 0.3, 2.0) * 0.5 in tenths (0: the
\* volatility is None or zero)
Markets ==
    [rows : {"few", "some", "many"}, price : BOOLEAN, rsi : {0, 15, 25, 50, 85},
     macd : {-1, 0, 1}, above : BOOLEAN, vol : {0, 1, 10}]

\* _calculate_indicators: "trend" needs sma_20 and sma_50
Trend(m) ==
    IF m.rows = "many" THEN (IF m.above THEN "up" ELSE "down") ELSE "neutral"

\* _determine_signal_type
DetermineSignalType(m) ==
    IF m.rsi > 0 /\ m.rsi < 30 THEN "buy"
    ELSE IF m.rsi > 0 /\ m.rsi > 70 THEN "sell"
    ELSE IF m.macd > 0 /\ Trend(m) = "up" THEN "buy"
    ELSE IF m.macd < 0 /\ Trend(m) = "down" THEN "sell"
    ELSE IF Trend(m) = "up" THEN "buy"
    ELSE IF Trend(m) = "down" THEN "sell"
    ELSE "hold"

\* _calculate_tp_sl: the range scaled by the volatility, or its middle
CalculateTpSl(category, m) ==
    LET tp == TakeProfitPct(category)
        sl == StopLossPct(category)
    IN  IF m.vol # 0
        THEN [tp |-> tp[1] + ((tp[2] - tp[1]) * m.vol) \div 10,
              sl |-> sl[1] + ((sl[2] - sl[1]) * m.vol) \div 10]
        ELSE [tp |-> (tp[1] + tp[2]) \div 2, sl |-> (sl[1] + sl[2]) \div 2]

\* tp_pct / sl_pct >= tenths / 10, for sl_pct > 0
RiskRewardAtLeast(tpsl, tenths) == 10 * tpsl.tp >= tenths * tpsl.sl

\* position_size_pct = min(self.max_position_size_pct, sl_pct / 100)
PositionSizePct(sl_pct) ==
    IF sl_pct < MaxPositionSizePct THEN sl_pct ELSE MaxPositionSizePct

\* _determine_strength
DetermineStrength(m, tpsl) ==
    LET confirmations ==
            (IF m.rsi > 0 /\ (m.rsi < 30 \/ m.rsi > 70) THEN 1 ELSE 0)
          + (IF m.macd # 0 THEN 1 ELSE 0)
          + (IF Trend(m) # "neutral" THEN 1 ELSE 0)
          + (IF RiskRewardAtLeast(tpsl, 20) THEN 1 ELSE 0)
    IN  IF confirmations >= 3 THEN "very_strong"
        ELSE IF confirmations >= 2 THEN "strong"
        ELSE IF confirmations >= 1 THEN "moderate"
        ELSE "weak"

\* _calculate_confidence
CalculateConfidence(m, tpsl) ==
    LET confidence ==
            5000
          + (IF m.rsi > 0 /\ (m.rsi < 20 \/ m.rsi > 80) THEN 2000
             ELSE IF m.rsi > 0 /\ (m.rsi < 30 \/ m.rsi > 70) THEN 1000
             ELSE 0)
          + (IF RiskRewardAtLeast(tpsl, 30) THEN 2000
             ELSE IF RiskRewardAtLeast(tpsl, 20) THEN 1000
             ELSE 0)
          + (IF Trend(m) # "neutral" THEN 1000 ELSE 0)
    IN  IF confidence < 10000 THEN confidence ELSE 10000

\* no signal: generate_signal returned None
NoSignal == [symbol |-> "none"]

\* SignalEngine.generate_signal at time t, the second datetime.now() (of the
\* expiry) falling late minutes after the first (of the timestamp)
GenerateSignal(symbol, category, m, t, late) ==
    LET tpsl == CalculateTpSl(category, m)
    IN  IF m.rows = "few" \/ ~m.price \/ DetermineSignalType(m) = "hold"
           \/ ~RiskRewardAtLeast(tpsl, MinRiskReward)
        THEN NoSignal
        ELSE [symbol |-> symbol,
              signal_type |-> DetermineSignalType(m),
              category |-> category,
              take_profit_pct |-> tpsl.tp,
              stop_loss_pct |-> tpsl.sl,
              position_size_pct |-> PositionSizePct(tpsl.sl),
              timestamp |-> t,
              expiry |-> t + late + MaxHorizon(category),
              strength |-> DetermineStrength(m, tpsl),
              confidence |-> CalculateConfidence(m, tpsl),
              bias_flags |-> <<>>,
              ai |-> FALSE]

\* TradingSignal.is_valid at time t
IsValid(s, t) ==
    /\ ~(s.expiry # NoExpiry /\ t > s.expiry)
    /\ s.take_profit_pct >= s.stop_loss_pct
    /\ ValidSizeMin <= s.position_size_pct
    /\ s.position_size_pct <= ValidSizeMax

RECURSIVE InsertByConfidence(_, _)
\* the place of s in a list kept by confidence, highest first, after the
\* signals of the same confidence that came before it
InsertByConfidence(sorted, s) ==
    IF sorted = <<>> THEN <<s>>
    ELSE IF Head(sorted).confidence >= s.confidence
         THEN <<Head(sorted)>> \o InsertByConfidence(Tail(sorted), s)
         ELSE <<s>> \o sorted

RECURSIVE SortByConfidence(_)
\* signals.sort(key=lambda x: x.confidence, reverse=True): a stable sort
SortByConfidence(signals) ==
    IF signals = <<>> THEN <<>>
    ELSE InsertByConfidence(SortByConfidence(SubSeq(signals, 1, Len(signals) - 1)),
                            signals[Len(signals)])

RECURSIVE ValidSignals(_, _, _, _, _)
\* the loop of generate_signals_for_portfolio: the signals that were
\* generated and are valid, in the order of the symbols
ValidSignals(symbols, category, markets, t, late) ==
    IF symbols = <<>> THEN <<>>
    ELSE LET s == GenerateSignal(Head(symbols), category, markets[Head(symbols)],
                                 t, late)
             rest == ValidSignals(Tail(symbols), category, markets, t, late)
         IN  IF s # NoSignal /\ IsValid(s, t) THEN <<s>> \o rest ELSE rest

\* SignalEngine.generate_signals_for_portfolio
GenerateSignalsForPortfolio(symbols, category, markets, t, late) ==
    SortByConfidence(ValidSignals(symbols, category, markets, t, late))

\* SignalGenerator._check_signal_biases: the severities of the flags raised
\* (check_position_sizing above 0.02; check_overconfidence(0, 0.5) raises
\* none)
CheckSignalBiases(s) ==
    IF s.position_size_pct > ValidSizeMax
    THEN (IF s.position_size_pct > BiasMaxPositionSize THEN <<"high">>
          ELSE IF 10 * s.position_size_pct > 15 * ValidSizeMax THEN <<"medium">>
          ELSE <<>>)
    ELSE <<>>

HighSeverity(flags) == \E i \in 1..Len(flags) : flags[i] = "high"

\* the bias loop of generate_daily_signals: every signal gets its flags
Flagged(signals) ==
    [i \in 1..Len(signals) |->
        [signals[i] EXCEPT !.bias_flags = CheckSignalBiases(signals[i])]]

\* ... and those with a flag of high severity are left out
WithoutHighSeverity(signals) ==
    SelectSeq(signals, LAMBDA s : ~HighSeverity(s.bias_flags))

\* what the AI service answers for a signal: nothing (refine_signal traps
\* the exception and returns the signal as it was), or a confidence and the
\* distance between the bull and the bear consensus, in units of 1e-4
AiAnswers ==
    {[ok |-> FALSE, confidence |-> 0, consensus |-> 0]} \cup
    [ok : {TRUE}, confidence : {1000, 9000}, consensus : {0, 2000, 5000}]

\* AISignalRefiner._apply_ai_insights: a new TradingSignal with the blended
\* confidence and the strength that goes with it; expiry is not passed on
ApplyAiInsights(s, answer) ==
    LET adjusted == IF answer.consensus > 3000
                    THEN (IF (s.confidence * 11) \div 10 < 10000
                          THEN (s.confidence * 11) \div 10 ELSE 10000)
                    ELSE IF answer.consensus < 1000
                         THEN (s.confidence * 9) \div 10
                         ELSE s.confidence
        final == (adjusted * 6) \div 10 + (answer.confidence * 4) \div 10
    IN  [s EXCEPT !.confidence = final,
                  !.strength = IF final >= 8000 THEN "very_strong"
                               ELSE IF final >= 6500 THEN "strong"
                               ELSE IF final >= 5000 THEN "moderate"
                               ELSE "weak",
                  !.expiry = NoExpiry,
                  !.ai = TRUE]

\* AISignalRefiner.refine_signal
RefineSignal(s, answer) == IF answer.ok THEN ApplyAiInsights(s, answer) ELSE s

\* AISignalRefiner.refine_signals: each signal refined, in the order given
RefineSignals(signals, answers) ==
    [i \in 1..Len(signals) |-> RefineSignal(signals[i], answers[i])]

\* SignalGenerator.generate_daily_signals
GenerateDailySignals(symbols, category, markets, ai_enhanced, answers, t, late) ==
    LET candidates == Flagged(GenerateSignalsForPortfolio(symbols, category,
                                                          markets, t, late))
        filtered == WithoutHighSeverity(candidates)
    IN  [candidates |-> candidates,
         out |-> IF ai_enhanced /\ filtered # <<>>
                 THEN RefineSignals(filtered, answers) ELSE filtered]

\* the symbols signals are asked for
SignalSymbols == <<"BTC", "ETH">>

\* the markets met by a daily run: enough rows, a price, or none of it
DailyMarkets ==
    {m \in Markets : /\ m.above /\ m.macd = 1 /\ m.rsi \in {15, 25, 50}
                     /\ m.vol \in {0, 10}
                     /\ \/ m.rows = "many" /\ m.price
                        \/ m.rows = "few" /\ ~m.price /\ m.rsi = 50 /\ m.vol = 0}

\* the answers of the AI service met by a daily run
DailyAnswers ==
    {a \in AiAnswers : ~a.ok \/ (a.confidence = 1000 /\ a.consensus = 0)
                              \/ (a.confidence = 9000 /\ a.consensus = 5000)}

\* the last moment followed: past the expiry of a scalp signal
MaxSignalTime == MaxHorizon("scalp") + 2

\* SignalEngine.generate_signal is called for one symbol; the call followed
\* is the first
DoGenerateSignal ==
    /\ sig.op = "none"
    /\ \E category \in Categories, m \in Markets, late \in {0, 1} :
         LET s == GenerateSignal("BTC", category, m, sig.now, late)
         IN  sig' = [op |-> "generate_signal", now |-> sig.now, ai |-> FALSE,
                     candidates |-> <<>>,
                     out |-> IF s = NoSignal THEN <<>> ELSE <<s>>]
    /\ UNCHANGED <<deskVars, configVars, manualVars, adapterVars, storeVars, cacheVars,
                   routerVars, collectorVars>>

\* SignalGenerator.generate_daily_signals is called, with or without AI
DoGenerateDaily ==
    /\ sig.op = "none"
    /\ \E category \in Categories, ai_enhanced \in BOOLEAN, late \in {0, 1} :
       \E markets \in [{"BTC", "ETH"} -> DailyMarkets] :
       \E answers \in IF ai_enhanced THEN [1..Len(SignalSymbols) -> DailyAnswers]
                      ELSE {[i \in 1..Len(SignalSymbols) |->
                               [ok |-> FALSE, confidence |-> 0, consensus |-> 0]]} :
       \E g \in {GenerateDailySignals(SignalSymbols, category, markets,
                                      ai_enhanced, answers, sig.now, late)} :
         sig' = [op |-> "generate_daily_signals", now |-> sig.now,
                 ai |-> ai_enhanced, candidates |-> g.candidates, out |-> g.out]
    /\ UNCHANGED <<deskVars, configVars, manualVars, adapterVars, storeVars, cacheVars,
                   routerVars, collectorVars>>

\* time passes, to the end of the shortest horizon and then minute by minute
SignalTick ==
    /\ sig.now < MaxSignalTime
    /\ sig' = [sig EXCEPT !.now = IF @ < MaxHorizon("scalp")
                                  THEN MaxHorizon("scalp") ELSE @ + 1]
    /\ UNCHANGED <<deskVars, configVars, manualVars, adapterVars, storeVars, cacheVars,
                   routerVars, collectorVars>>

(***************************************************************************)
(* SpecSignal: signals asked of the engine and of the generator, and kept  *)
(* by their consumer as time passes.                                       *)
(***************************************************************************)
InitSignal == InitStore

NextSignal == DoGenerateSignal \/ DoGenerateDaily \/ SignalTick

SpecSignal == InitSignal /\ [][NextSignal]_vars

\* the signals handed out by the call just made
Emitted == {sig.out[i] : i \in 1..Len(sig.out)}

\* C18: every signal emitted by the signal engine, of whatever category, has
\* a position size of at least 0.01 and at most 0.02.
PositionSizeWithinLimits ==
    \A s \in Emitted :
        ValidSizeMin <= s.position_size_pct /\ s.position_size_pct <= ValidSizeMax

\* the expiry check of is_valid lets the signal through at time t
NotExpired(s, t) == ~(s.expiry # NoExpiry /\ t > s.expiry)

\* C19: every signal handed to consumers, by the engine or by the AI
\* refinement, has expiry = timestamp + the max_horizon of its category, and
\* passes the expiry check exactly until that instant has passed.
ExpiryIsTimestampPlusHorizon ==
    \A s \in Emitted :
        /\ s.expiry = s.timestamp + MaxHorizon(s.category)
        /\ NotExpired(s, sig.now) <=> sig.now <= s.timestamp + MaxHorizon(s.category)

\* the symbols of a list of signals, in its order
SignalSymbolsOf(signals) == [i \in 1..Len(signals) |-> signals[i].symbol]

\* C20: generate_daily_signals returns exactly the candidates without a
\* high-severity bias flag, each with its flags, by confidence descending,
\* in baseline and in AI-enhanced mode.
DailySignalsFilteredAndOrdered ==
    sig.op = "generate_daily_signals" =>
        /\ SignalSymbolsOf(sig.out)
             = SignalSymbolsOf(WithoutHighSeverity(sig.candidates))
        /\ \A i \in 1..Len(sig.out) :
             sig.out[i].bias_flags = CheckSignalBiases(sig.out[i])
        /\ \A i \in 1..Len(sig.out), j \in 1..Len(sig.out) :
             i < j => sig.out[i].confidence >= sig.out[j].confidence

(***************************************************************************)
(* Decision support (src/guidance/decision_support.py).  A signal carries  *)
(* its percentages in units of 0.001%, its position size in units of 1e-5  *)
(* and its confidence in units of 1e-4, as in the signal layer; the        *)
(* confidence of a recommendation is in units of 1e-6.                     *)
(***************************************************************************)
Strengths == {"weak", "moderate", "strong", "very_strong"}

\* the bias_warnings of analyze_signal: the message of every flag that has
\* one (a BiasFlag always has), whatever its severity
BiasWarnings(s) == s.bias_flags

\* DecisionSupport._assess_risk_level
AssessRiskLevel(s) ==
    LET tpsl == [tp |-> s.take_profit_pct, sl |-> s.stop_loss_pct]
        risk_score ==
            (IF s.position_size_pct > 2000 THEN 2
             ELSE IF s.position_size_pct > 1500 THEN 1 ELSE 0)
          + (IF ~RiskRewardAtLeast(tpsl, 15) THEN 2
             ELSE IF ~RiskRewardAtLeast(tpsl, 20) THEN 1 ELSE 0)
          + (IF s.stop_loss_pct > 5000 THEN 1 ELSE 0)
          + (IF s.category = "scalp" THEN 2
             ELSE IF s.category = "intraday" THEN 1 ELSE 0)
          + (IF s.confidence < 5000 THEN 1 ELSE 0)
    IN  IF risk_score >= 5 THEN "high"
        ELSE IF risk_score >= 3 THEN "medium"
        ELSE "low"

\* one warning is enough
AnyWarning(bias_warnings) == Len(bias_warnings) >= 1

\* len(bias_warnings) >= 2
TooManyWarnings(bias_warnings) == Len(bias_warnings) >= 2

\* DecisionSupport._determine_recommendation
DetermineRecommendation(s, risk_level, bias_warnings) ==
    IF TooManyWarnings(bias_warnings) THEN "avoid"
    ELSE IF risk_level = "high"
         THEN (IF s.confidence < 6000 THEN "avoid" ELSE "hold")
    ELSE IF s.strength = "very_strong" /\ s.confidence >= 8000 THEN "strong_buy"
    ELSE IF s.strength \in {"strong", "very_strong"} /\ s.confidence >= 6000
         THEN "buy"
    ELSE IF s.strength = "moderate" THEN "hold"
    ELSE "avoid"

\* DecisionSupport._calculate_confidence, in units of 1e-6
DecisionConfidence(s, risk_level, bias_warnings) ==
    LET c == s.confidence
               * (IF risk_level = "high" THEN 7
                  ELSE IF risk_level = "medium" THEN 9 ELSE 10)
               * (10 - Len(bias_warnings))
    IN  IF c < 0 THEN 0 ELSE IF c > 1000000 THEN 1000000 ELSE c

\* DecisionSupport.analyze_signal at time t
AnalyzeSignal(s, t) ==
    IF ~IsValid(s, t)
    THEN [recommendation |-> "avoid", confidence |-> 0, risk_level |-> "high",
          bias_warnings |-> <<"Invalid signal">>]
    ELSE LET bias_warnings == BiasWarnings(s)
             risk_level == AssessRiskLevel(s)
         IN  [recommendation |->
                  DetermineRecommendation(s, risk_level, bias_warnings),
              confidence |-> DecisionConfidence(s, risk_level, bias_warnings),
              risk_level |-> risk_level,
              bias_warnings |-> bias_warnings]

\* the signals put before decision support: take profit, stop loss and
\* position size together, the flags by their severities
DecisionLevels ==
    {[tp |-> 4500, sl |-> 1800, size |-> 1800],
     [tp |-> 3000, sl |-> 1800, size |-> 1800],
     [tp |-> 2000, sl |-> 1800, size |-> 1800],
     [tp |-> 12000, sl |-> 6000, size |-> 2000],
     [tp |-> 1000, sl |-> 1800, size |-> 1800],
     [tp |-> 4500, sl |-> 1800, size |-> 2500]}

DecisionFlags == {<<>>, <<"high">>, <<"low">>, <<"high", "medium">>}

DecisionSignals ==
    {[symbol |-> "BTC", signal_type |-> "buy", category |-> category,
      take_profit_pct |-> l.tp, stop_loss_pct |-> l.sl,
      position_size_pct |-> l.size, timestamp |-> 0, expiry |-> expiry,
      strength |-> strength, confidence |-> confidence,
      bias_flags |-> flags, ai |-> FALSE] :
       category \in Categories, l \in DecisionLevels, expiry \in {NoExpiry, 0},
       strength \in Strengths, confidence \in {4500, 5500, 6000, 8500},
       flags \in DecisionFlags}

\* analyze_signal is called with a signal, at its timestamp or after; the
\* call followed is the first
DoAnalyzeSignal ==
    /\ dec.op = "none"
    /\ \E s \in DecisionSignals, t \in {0, 1} :
         dec' = [op |-> "analyze_signal", signal |-> s, now |-> t,
                 out |-> AnalyzeSignal(s, t)]
    /\ UNCHANGED <<trk, offGuidance>>

(***************************************************************************)
(* SpecDecision: a signal put before decision support.                     *)
(***************************************************************************)
InitDecision == InitStore

NextDecision == DoAnalyzeSignal

SpecDecision == InitDecision /\ [][NextDecision]_vars

\* the signal of the example: very strong, confidence 0.85, risk/reward 2.5,
\* position size 0.018, not expired
ExampleSignal(s) ==
    /\ s.strength = "very_strong"
    /\ s.confidence = 8500
    /\ 10 * s.take_profit_pct = 25 * s.stop_loss_pct
    /\ s.position_size_pct = 1800
    /\ s.expiry = NoExpiry

\* C21 as stated: the example signal is recommended strong_buy when it has
\* no bias flag, and avoid when it carries one flag of high severity.
ExampleRecommendationsAsStated ==
    dec.op = "analyze_signal" /\ ExampleSignal(dec.signal) =>
        /\ dec.signal.bias_flags = <<>> => dec.out.recommendation = "strong_buy"
        /\ dec.signal.bias_flags = <<"high">> => dec.out.recommendation = "avoid"

\* C21, amended: the example signal is recommended strong_buy when it has
\* no bias flag and also when it carries one flag, of high severity or not;
\* it is recommended avoid when it carries two flags or more.
ExampleRecommendations ==
    dec.op = "analyze_signal" /\ ExampleSignal(dec.signal) =>
        dec.out.recommendation =
            IF Len(dec.signal.bias_flags) >= 2 THEN "avoid" ELSE "strong_buy"

ExampleRecommendationsWitness ==
    /\ dec.op = "analyze_signal" /\ ExampleSignal(dec.signal)
    /\ dec.signal.bias_flags = <<"high">>
    /\ dec.out.recommendation = "strong_buy"

(***************************************************************************)
(* The decision log (src/guidance/tracking.py).  decision_logs is a list   *)
(* of DecisionLog entries; the log file holds the JSON text of the last    *)
(* save that went through, or what a save that failed on the way left of   *)
(* it.  A timestamp is a count of log_decision calls; in the file it is    *)
(* its isoformat text.                                                     *)
(***************************************************************************)
\* log_decision calls followed
MaxLogs == 2

\* the signals decided upon: symbol and signal timestamp
LoggedSignals ==
    {[symbol |-> "BTC", timestamp |-> 0], [symbol |-> "BTC", timestamp |-> 1],
     [symbol |-> "ETH", timestamp |-> 0]}

\* None
NoValue == "None"

\* datetime.isoformat and datetime.fromisoformat
IsoFormat(t) == <<"iso", t>>
FromIsoFormat(text) == text[2]

\* DecisionLog.to_dict
LogToDict(log) == [log EXCEPT !.timestamp = IsoFormat(@)]

\* entry["timestamp"] = datetime.fromisoformat(...); DecisionLog(**entry)
LogFromDict(entry) == [entry EXCEPT !.timestamp = FromIsoFormat(@)]

\* what open(log_file, "w") and json.dump do: write the whole list, fail
\* before the file is opened, or fail after it was truncated
SaveOutcomes == {"saved", "open_fails", "dump_fails"}

\* PortfolioTracker._save_logs: the file afterwards
SaveLogs(logs, file, outcome) ==
    IF outcome = "saved"
    THEN [state |-> "json",
          entries |-> [i \in 1..Len(logs) |-> LogToDict(logs[i])]]
    ELSE IF outcome = "open_fails" THEN file
    ELSE [state |-> "partial", entries |-> <<>>]

\* PortfolioTracker._load_logs: decision_logs afterwards
LoadLogs(file) ==
    IF file.state = "json"
    THEN [i \in 1..Len(file.entries) |-> LogFromDict(file.entries[i])]
    ELSE <<>>

\* PortfolioTracker.log_decision
LogDecision ==
    /\ trk.n < MaxLogs
    /\ \E signal \in LoggedSignals, decision \in {"executed", "rejected"},
          outcome \in SaveOutcomes :
         LET log_entry ==
                 [timestamp |-> trk.n, symbol |-> signal.symbol,
                  signal_timestamp |-> IsoFormat(signal.timestamp),
                  decision |-> decision,
                  outcome |-> IF decision = "executed" THEN "pending"
                              ELSE NoValue,
                  pnl_pct |-> NoValue]
             logs == Append(trk.logs, log_entry)
         IN  trk' = [logs |-> logs, file |-> SaveLogs(logs, trk.file, outcome),
                     n |-> trk.n + 1, op |-> "log_decision"]
    /\ UNCHANGED <<dec, offGuidance>>

\* the first entry of the log for symbol and timestamp; 0 when there is none
RECURSIVE FirstMatch(_, _, _)
FirstMatch(logs, signal, i) ==
    IF i > Len(logs) THEN 0
    ELSE IF logs[i].symbol = signal.symbol
            /\ logs[i].signal_timestamp = IsoFormat(signal.timestamp)
         THEN i
    ELSE FirstMatch(logs, signal, i + 1)

\* PortfolioTracker.update_decision_outcome
UpdateDecisionOutcome ==
    /\ \E signal \in LoggedSignals, result \in {"profit", "loss"},
          outcome \in SaveOutcomes :
         LET i == FirstMatch(trk.logs, signal, 1)
             logs == [trk.logs EXCEPT ![i] =
                         [@ EXCEPT !.outcome = result,
                                   !.pnl_pct = IF result = "profit" THEN 5
                                               ELSE -5]]
         IN  IF i = 0
             THEN trk' = [trk EXCEPT !.op = "update_decision_outcome"]
             ELSE trk' = [trk EXCEPT !.logs = logs,
                                     !.file = SaveLogs(logs, trk.file, outcome),
                                     !.op = "update_decision_outcome"]
    /\ UNCHANGED <<dec, offGuidance>>

\* the service starts again: a new PortfolioTracker loads the file
TrackerRestart ==
    /\ trk' = [trk EXCEPT !.logs = LoadLogs(trk.file), !.op = "init"]
    /\ UNCHANGED <<dec, offGuidance>>

(***************************************************************************)
(* SpecTracker: decisions logged, outcomes recorded and the tracker built  *)
(* anew over its file.                                                     *)
(***************************************************************************)
InitTracker == InitStore

NextTracker == LogDecision \/ UpdateDecisionOutcome \/ TrackerRestart

SpecTracker == InitTracker /\ [][NextTracker]_vars

\* new continues old: every entry of old is still there, at its place,
\* changed at most in its outcome and pnl
Continues(old, new) ==
    /\ Len(new) >= Len(old)
    /\ \A i \in 1..Len(old) :
         [new[i] EXCEPT !.outcome = NoValue, !.pnl_pct = NoValue]
           = [old[i] EXCEPT !.outcome = NoValue, !.pnl_pct = NoValue]

\* C22: the decision log is append-only: no step, loading and saving
\* included, removes, reorders or rewrites an entry of the list or of a
\* readable log file, other than the outcome and pnl of the entry updated.
DecisionLogAppendOnly ==
    [][/\ Continues(trk.logs, trk'.logs)
       /\ trk.file.state = "json" =>
            /\ trk'.file.state = "json"
            /\ Continues(trk.file.entries, trk'.file.entries)]_vars

(***************************************************************************)
(* The allocation tracker (src/portfolio/allocation_tracker.py).  Values   *)
(* are in thousands, percentages in units of 0.01%; the inputs are chosen  *)
(* so that every quotient of the report is a whole number of these.        *)
(***************************************************************************)
\* AllocationTracker.TARGET_ALLOCATIONS, in the order of the dict
AssetClasses == <<"stocks", "etfs", "commodities", "crypto", "futures", "cash">>

TargetAllocations(asset_class) ==
    CASE asset_class = "stocks" -> 5000
      [] asset_class = "etfs" -> 1500
      [] asset_class = "commodities" -> 1500
      [] asset_class = "crypto" -> 1000
      [] asset_class = "futures" -> 500
      [] asset_class = "cash" -> 500
      [] OTHER -> 0

\* the default of rebalancing_threshold
DefaultThreshold == 500

\* AllocationTracker._get_target_for_asset
GetTargetForAsset(symbol) ==
    CASE symbol = "AAPL" -> 1000
      [] symbol = "COST" -> 800
      [] symbol = "HD" -> 700
      [] OTHER -> 0

Abs(x) == IF x < 0 THEN -x ELSE x

\* (value / portfolio_value * 100) if portfolio_value > 0 else 0
CurrentPercent(value, portfolio_value) ==
    IF portfolio_value > 0 THEN (value * 10000) \div portfolio_value ELSE 0

\* portfolio_value * target_percent / 100
TargetValue(portfolio_value, target_percent) ==
    (portfolio_value * target_percent) \div 10000

\* asset_class_totals[asset_class] after the loop over the holdings, of
\* which the first n are counted
RECURSIVE ClassTotal(_, _, _)
ClassTotal(holdings, asset_class, n) ==
    IF n = 0 THEN 0
    ELSE ClassTotal(holdings, asset_class, n - 1)
           + (IF holdings[n].asset_class = asset_class
              THEN holdings[n].value ELSE 0)

\* the AssetAllocation of one holding
AssetAllocationOf(h, portfolio_value) ==
    LET target_percent == GetTargetForAsset(h.symbol)
    IN  [symbol |-> h.symbol, asset_class |-> h.asset_class,
         current_percent |-> CurrentPercent(h.value, portfolio_value),
         target_percent |-> target_percent,
         current_value |-> h.value,
         target_value |-> TargetValue(portfolio_value, target_percent),
         difference |-> h.value - TargetValue(portfolio_value, target_percent),
         difference_percent |->
             CurrentPercent(h.value, portfolio_value) - target_percent]

\* the AssetClassAllocation of one class
ClassAllocationOf(asset_class, holdings, portfolio_value) ==
    LET target_percent == TargetAllocations(asset_class)
        current_value == ClassTotal(holdings, asset_class, Len(holdings))
        current_percent == CurrentPercent(current_value, portfolio_value)
        target_value == TargetValue(portfolio_value, target_percent)
    IN  [asset_class |-> asset_class,
         current_percent |-> current_percent,
         target_percent |-> target_percent,
         current_value |-> current_value,
         target_value |-> target_value,
         difference |-> current_value - target_value,
         difference_percent |-> current_percent - target_percent,
         assets |-> SelectSeq(
             [i \in 1..Len(holdings) |->
                 AssetAllocationOf(holdings[i], portfolio_value)],
             LAMBDA a : a.asset_class = asset_class)]

\* total_drift over the first n classes
RECURSIVE TotalDrift(_, _)
TotalDrift(classes, n) ==
    IF n = 0 THEN 0
    ELSE TotalDrift(classes, n - 1) + Abs(classes[n].difference_percent)

\* a drift that reaches the threshold
ReachesThreshold(ac, threshold) == Abs(ac.difference_percent) >= threshold

\* abs(ac.difference_percent) > self.rebalancing_threshold
ExceedsThreshold(ac, threshold) == Abs(ac.difference_percent) > threshold

\* AllocationTracker.calculate_allocation; holdings is the list of the
\* items of the dict, asset_class already defaulted to "stocks"
CalculateAllocation(holdings, portfolio_value, threshold) ==
    LET classes == [i \in 1..Len(AssetClasses) |->
                       ClassAllocationOf(AssetClasses[i], holdings,
                                         portfolio_value)]
    IN  [portfolio_value |-> portfolio_value,
         asset_classes |-> classes,
         total_drift |-> TotalDrift(classes, Len(classes)),
         needs_rebalancing |->
             \E i \in 1..Len(classes) : ExceedsThreshold(classes[i], threshold),
         rebalancing_threshold |-> threshold]

\* AllocationTracker.get_rebalancing_actions
GetRebalancingActions(report, threshold) ==
    LET drifted == SelectSeq(report.asset_classes,
                             LAMBDA ac : ExceedsThreshold(ac, threshold))
    IN  [i \in 1..Len(drifted) |->
            [asset_class |-> drifted[i].asset_class,
             action |-> IF drifted[i].difference > 0 THEN "SELL" ELSE "BUY",
             amount |-> Abs(drifted[i].difference),
             drift |-> drifted[i].difference_percent]]

\* data.get("asset_class", "stocks") and data.get("value", 0.0) of one item
\* of the holdings, "absent" for a key the dict lacks
HoldingOf(symbol, data) ==
    [symbol |-> symbol,
     asset_class |-> IF data.asset_class = "absent" THEN "stocks"
                     ELSE data.asset_class,
     value |-> data.value]

\* the values held, in thousands
HoldingValues == {0, 15, 25, 60}

\* the holdings passed: at most one of each of three symbols, in this order
HoldingChoices(symbol) ==
    {<<>>} \cup
    {<<HoldingOf(symbol, [asset_class |-> c, value |-> v])>> :
        c \in (CASE symbol = "AAPL" -> {"stocks", "absent"}
                 [] symbol = "BTC" -> {"crypto", "bonds"}
                 [] OTHER -> {"cash", "stocks"}),
        v \in HoldingValues}

HoldingsPassed ==
    {a \o b \o c : a \in HoldingChoices("AAPL"), b \in HoldingChoices("BTC"),
                   c \in HoldingChoices("USD")}

\* the portfolio values passed, in thousands
PortfolioValues == {0, 100, 200}

\* a tracker is built with a threshold and calculate_allocation is called;
\* the call followed is the first
DoCalculateAllocation ==
    /\ alloc.op = "none"
    /\ \E holdings \in HoldingsPassed, portfolio_value \in PortfolioValues,
          threshold \in {DefaultThreshold, 2 * DefaultThreshold} :
         alloc' = [op |-> "calculate_allocation", holdings |-> holdings,
                   threshold |-> threshold,
                   report |-> CalculateAllocation(holdings, portfolio_value,
                                                  threshold),
                   actions |-> <<>>]
    /\ UNCHANGED <<pf, offPortfolio>>

\* get_rebalancing_actions is called with the report
DoRebalancingActions ==
    /\ alloc.op = "calculate_allocation"
    /\ alloc' = [alloc EXCEPT
                   !.op = "get_rebalancing_actions",
                   !.actions = GetRebalancingActions(alloc.report,
                                                     alloc.threshold)]
    /\ UNCHANGED <<pf, offPortfolio>>

(***************************************************************************)
(* SpecAllocation: one allocation report and the actions drawn from it.    *)
(***************************************************************************)
InitAllocation == InitStore

NextAllocation == DoCalculateAllocation \/ DoRebalancingActions

SpecAllocation == InitAllocation /\ [][NextAllocation]_vars

\* the example: 100,000 held as stocks 60,000, crypto 15,000, cash 25,000,
\* under the default threshold
ExampleAllocation ==
    /\ alloc.op = "get_rebalancing_actions"
    /\ alloc.report.portfolio_value = 100
    /\ alloc.threshold = DefaultThreshold
    /\ alloc.holdings =
         <<[symbol |-> "AAPL", asset_class |-> "stocks", value |-> 60],
           [symbol |-> "BTC", asset_class |-> "crypto", value |-> 15],
           [symbol |-> "USD", asset_class |-> "cash", value |-> 25]>>

\* the drift of a class in the report
DriftOf(asset_class) ==
    LET i == CHOOSE i \in 1..Len(AssetClasses) : AssetClasses[i] = asset_class
    IN  alloc.report.asset_classes[i].difference_percent

\* the actions name this one
HasAction(asset_class, action, amount) ==
    \E i \in 1..Len(alloc.actions) :
        /\ alloc.actions[i].asset_class = asset_class
        /\ alloc.actions[i].action = action
        /\ alloc.actions[i].amount = amount

\* C23 as stated: drifts stocks +10, crypto +5, cash +20, total_drift 35,
\* and the actions include SELL stocks 10,000 and SELL crypto 5,000.
ExampleDriftsAsStated ==
    ExampleAllocation =>
        /\ DriftOf("stocks") = 1000 /\ DriftOf("crypto") = 500
        /\ DriftOf("cash") = 2000
        /\ alloc.report.total_drift = 3500
        /\ HasAction("stocks", "SELL", 10)
        /\ HasAction("crypto", "SELL", 5)

\* C23, amended: drifts stocks +10, crypto +5, cash +20 and, for the classes
\* not held, etfs -15, commodities -15, futures -5; total_drift 70; the
\* actions include SELL stocks 10,000 and SELL cash 20,000 and none for
\* crypto, whose drift of 5 does not exceed the threshold.
ExampleDrifts ==
    ExampleAllocation =>
        /\ DriftOf("stocks") = 1000 /\ DriftOf("crypto") = 500
        /\ DriftOf("cash") = 2000
        /\ DriftOf("etfs") = -1500 /\ DriftOf("commodities") = -1500
        /\ DriftOf("futures") = -500
        /\ alloc.report.total_drift = 7000
        /\ HasAction("stocks", "SELL", 10)
        /\ HasAction("cash", "SELL", 20)
        /\ \A i \in 1..Len(alloc.actions) :
             alloc.actions[i].asset_class \notin {"crypto", "futures"}

ExampleDriftsWitness ==
    ExampleAllocation /\ alloc.report.needs_rebalancing /\ Len(alloc.actions) = 4

\* the sum of current_value over the first n classes
RECURSIVE ClassValueSum(_, _)
ClassValueSum(classes, n) ==
    IF n = 0 THEN 0
    ELSE ClassValueSum(classes, n - 1) + classes[n].current_value

\* C24: in every report the per-class current_value figures sum to the
\* report's portfolio_value, whatever holdings and portfolio value were
\* passed.
ClassValuesSumToPortfolioValue ==
    alloc.op # "none" =>
        ClassValueSum(alloc.report.asset_classes, Len(AssetClasses))
          = alloc.report.portfolio_value

(***************************************************************************)
(* The AI service client (src/ai/client.py), the AI bias mitigator         *)
(* (src/ai/bias_mitigation.py) and the routes that call them               *)
(* (src/api/ai_routes.py).  A call gives back [raised, value]: the         *)
(* exception that left it, or what it returned.                            *)
(***************************************************************************)
\* what the fks_ai service does with one request: a JSON body, an
\* httpx.HTTPError (unreachable, timeout, error status), or a body that
\* response.json() cannot read
AiDecisions == {"BUY", "SELL", "HOLD"}

AiBodies ==
    {[confidence |-> c, final_decision |-> dcn, bull_consensus |-> b,
      bias_detected |-> bd, bias_type |-> bt, status |-> st] :
        c \in {2500, 5000, 9000}, dcn \in AiDecisions, b \in {2500, 7500},
        bd \in BOOLEAN, bt \in {"overconfidence", "loss_aversion"},
        st \in {"healthy", "degraded"}}

AiReplies ==
    {[kind |-> "ok", body |-> b] : b \in AiBodies}
      \cup {[kind |-> k, body |-> [status |-> "none"]] :
               k \in {"http_error", "error"}}

ReturnedValue(v) == [raised |-> FALSE, value |-> v]
RaisedError(e) == [raised |-> TRUE, value |-> [error |-> e]]

\* the neutral fallback of analyze_symbol
FallbackAnalysis ==
    [confidence |-> 5000, final_decision |-> "HOLD", bull_consensus |-> 5000,
     summary |-> "fallback"]

\* the fallback of debate_signal
FallbackDebate == [bull_consensus |-> 5000, summary |-> "fallback"]

\* a method that answers every failure with a fallback
FallbackOnError(reply, fallback) ==
    IF reply.kind = "ok" THEN ReturnedValue(reply.body)
    ELSE ReturnedValue(fallback)

\* a method whose except clauses log and raise again
LogAndRaise(reply, fallback) ==
    IF reply.kind = "ok" THEN ReturnedValue(reply.body)
    ELSE RaisedError(reply.kind)

\* AIServiceClient.analyze_symbol
ClientAnalyzeSymbol(reply) == FallbackOnError(reply, FallbackAnalysis)

\* AIServiceClient.debate_signal
ClientDebateSignal(reply) == FallbackOnError(reply, FallbackDebate)

\* AIServiceClient.detect_bias
ClientDetectBias(reply) == LogAndRaise(reply, [bias_detected |-> FALSE])

\* AIServiceClient.query_memory
ClientQueryMemory(reply) == LogAndRaise(reply, [results |-> <<>>])

\* AIServiceClient.get_agent_status
ClientGetAgentStatus(reply) == LogAndRaise(reply, [status |-> "unknown"])

\* AIServiceClient.health_check
ClientHealthCheck(reply) ==
    IF reply.kind = "ok"
    THEN ReturnedValue([healthy |-> reply.body.status = "healthy"])
    ELSE ReturnedValue([healthy |-> FALSE])

\* self.bias_detector.detect_bias(signal): BiasDetector defines
\* check_recent_loss_aversion, check_overconfidence, check_position_sizing,
\* detect_all_biases and get_bias_recommendation, and no detect_bias
RuleBasedDetect == RaisedError("AttributeError")

\* AIBiasMitigator.detect_and_mitigate
DetectAndMitigate(reply) ==
    LET ai_bias == ClientDetectBias(reply)
        tried == IF ai_bias.raised THEN ai_bias
                 ELSE IF RuleBasedDetect.raised THEN RuleBasedDetect
                 ELSE ReturnedValue(
                          [bias_detected |-> ai_bias.value.bias_detected,
                           ai_confidence |-> ai_bias.value.confidence,
                           rule_based_flags |-> 0])
    IN  IF ~tried.raised THEN tried
        ELSE IF RuleBasedDetect.raised THEN RuleBasedDetect
        ELSE ReturnedValue([bias_detected |-> FALSE, ai_confidence |-> 0,
                            rule_based_flags |-> 0])

\* a route that answers an exception with HTTPException(status_code=500)
RouteOf(call) ==
    IF call.raised THEN [status |-> 500, body |-> call.value]
    ELSE [status |-> 200, body |-> call.value]

\* GET /api/ai/analyze/{symbol}
RouteAnalyze(reply) == RouteOf(ClientAnalyzeSymbol(reply))

\* POST /api/ai/bias-check
RouteBiasCheck(reply) == RouteOf(DetectAndMitigate(reply))

\* GET /api/ai/health: health_check, then get_agent_status, any exception
\* answered with ai_service_healthy False
RouteHealth(reply) ==
    LET is_healthy == ClientHealthCheck(reply)
        agent_status == ClientGetAgentStatus(reply)
    IN  IF agent_status.raised
        THEN [status |-> 200, body |-> [healthy |-> FALSE]]
        ELSE [status |-> 200, body |-> is_healthy.value]

AiCalls ==
    {"analyze_symbol", "debate_signal", "detect_bias", "query_memory",
     "get_agent_status", "health_check", "detect_and_mitigate"}

AiRoutes == {"analyze", "bias-check", "health"}

CallOf(method, reply) ==
    CASE method = "analyze_symbol" -> ClientAnalyzeSymbol(reply)
      [] method = "debate_signal" -> ClientDebateSignal(reply)
      [] method = "detect_bias" -> ClientDetectBias(reply)
      [] method = "query_memory" -> ClientQueryMemory(reply)
      [] method = "get_agent_status" -> ClientGetAgentStatus(reply)
      [] method = "health_check" -> ClientHealthCheck(reply)
      [] OTHER -> DetectAndMitigate(reply)

\* a caller awaits one method of the client or of the mitigator
DoAiCall ==
    /\ aic.op = "none"
    /\ \E method \in AiCalls, reply \in AiReplies :
         aic' = [op |-> method, failed |-> reply.kind # "ok",
                 out |-> CallOf(method, reply),
                 request |-> [status |-> 0]]
    /\ UNCHANGED offAi

\* a request comes in on one of the routes
DoAiRequest ==
    /\ aic.op = "none"
    /\ \E route \in AiRoutes, reply \in AiReplies :
         aic' = [op |-> route, failed |-> reply.kind # "ok",
                 out |-> ReturnedValue([status |-> "none"]),
                 request |-> CASE route = "analyze" -> RouteAnalyze(reply)
                               [] route = "bias-check" -> RouteBiasCheck(reply)
                               [] OTHER -> RouteHealth(reply)]
    /\ UNCHANGED offAi

(***************************************************************************)
(* SpecAi: one call of the AI layer, or one request on its routes, with    *)
(* the AI service answering or failing.                                    *)
(***************************************************************************)
InitAi == InitStore

NextAi == DoAiCall \/ DoAiRequest

SpecAi == InitAi /\ [][NextAi]_vars

\* C25: whenever the AI service fails, every client call and the bias
\* mitigator return a baseline instead of raising, and no parent request
\* fails.
AiFailureNeverRaised ==
    aic.op # "none" /\ aic.failed =>
        /\ ~aic.out.raised
        /\ aic.request.status # 500

(***************************************************************************)
(* The bias detector (src/risk/bias_detection.py).  Losses and win rates   *)
(* are in units of 1e-4, allocations in units of 1e-5.                     *)
(***************************************************************************)
\* the longest list of flags judged
MaxFlags == 3

\* BiasDetector.RECENT_LOSS_THRESHOLD = 0.02
RecentLossThreshold == 200
\* BiasDetector.OVERCONFIDENCE_WIN_STREAK = 5
OverconfidenceWinStreak == 5

Severities == {"low", "medium", "high"}

BiasTypes == {"recent_loss_aversion", "overconfidence", "anchoring"}

BiasFlagOf(bias_type, severity) == [bias_type |-> bias_type, severity |-> severity]

\* BiasDetector.check_recent_loss_aversion: the flags it adds
CheckRecentLossAversion(recent_losses) ==
    IF recent_losses > RecentLossThreshold
    THEN <<BiasFlagOf("recent_loss_aversion",
                      IF recent_losses > 500 THEN "high" ELSE "medium")>>
    ELSE <<>>

\* BiasDetector.check_overconfidence
CheckOverconfidence(recent_wins) ==
    IF recent_wins >= OverconfidenceWinStreak
    THEN <<BiasFlagOf("overconfidence",
                      IF recent_wins < 8 THEN "medium" ELSE "high")>>
    ELSE <<>>

\* BiasDetector.check_position_sizing
CheckPositionSizing(current_allocation, recommended_allocation) ==
    IF current_allocation > BiasMaxPositionSize
    THEN <<BiasFlagOf("anchoring", "high")>>
    ELSE IF 10 * current_allocation > 15 * recommended_allocation
    THEN <<BiasFlagOf("overconfidence", "medium")>>
    ELSE <<>>

\* BiasDetector.detect_all_biases
DetectAllBiases(recent_losses, recent_wins, current_allocation, recommended_allocation) ==
    CheckRecentLossAversion(recent_losses)
      \o CheckOverconfidence(recent_wins)
      \o CheckPositionSizing(current_allocation, recommended_allocation)

\* a label that calls every list without a high or medium flag OK
OkWithoutMedium(biases) ==
    IF \E i \in 1..Len(biases) : biases[i].severity = "high"
    THEN "AVOID_TRADING"
    ELSE IF \E i \in 1..Len(biases) : biases[i].severity = "medium"
    THEN "REDUCE_POSITION_SIZE"
    ELSE "OK"

\* BiasDetector.get_bias_recommendation
GetBiasRecommendation(biases) ==
    IF biases = <<>> THEN "OK"
    ELSE IF \E i \in 1..Len(biases) : biases[i].severity = "high"
    THEN "AVOID_TRADING"
    ELSE IF \E i \in 1..Len(biases) : biases[i].severity = "medium"
    THEN "REDUCE_POSITION_SIZE"
    ELSE "CAUTION"

\* the lists of at most n flags
RECURSIVE FlagLists(_)
FlagLists(n) ==
    IF n = 0 THEN {<<>>}
    ELSE FlagLists(n - 1) \cup
         {Append(l, BiasFlagOf(t, s)) :
            l \in {k \in FlagLists(n - 1) : Len(k) = n - 1},
            t \in BiasTypes, s \in Severities}

\* get_bias_recommendation is called with a list of flags; the call
\* followed is the first
DoBiasRecommendation ==
    /\ rk.op = "none"
    /\ \E biases \in FlagLists(MaxFlags) :
         rk' = [op |-> "get_bias_recommendation", biases |-> biases,
                label |-> GetBiasRecommendation(biases)]
    /\ UNCHANGED offRisk

\* the risk report: detect_all_biases, then get_bias_recommendation on what
\* it found
DoDetectAllBiases ==
    /\ rk.op = "none"
    /\ \E recent_losses \in {0, 300, 600}, recent_wins \in {0, 5, 8},
          current_allocation \in {10000, 18000, 25000},
          recommended_allocation \in {10000, 20000} :
         LET biases == DetectAllBiases(recent_losses, recent_wins,
                                       current_allocation,
                                       recommended_allocation)
         IN  rk' = [op |-> "detect_all_biases", biases |-> biases,
                    label |-> GetBiasRecommendation(biases)]
    /\ UNCHANGED offRisk

(***************************************************************************)
(* SpecBias: one list of flags, given or detected, and its label.          *)
(***************************************************************************)
InitBias == InitStore

NextBias == DoBiasRecommendation \/ DoDetectAllBiases

SpecBias == InitBias /\ [][NextBias]_vars

AnyOfSeverity(biases, severity) ==
    \E i \in 1..Len(biases) : biases[i].severity = severity

\* C26 as stated: the label is AVOID_TRADING if any flag is high, otherwise
\* REDUCE_POSITION_SIZE if any is medium, otherwise OK, also for a list of
\* low-severity flags only.
BiasLabelAsStated ==
    rk.op # "none" =>
        rk.label = IF AnyOfSeverity(rk.biases, "high") THEN "AVOID_TRADING"
                   ELSE IF AnyOfSeverity(rk.biases, "medium")
                   THEN "REDUCE_POSITION_SIZE"
                   ELSE "OK"

\* C26, amended: AVOID_TRADING if any flag is high, otherwise
\* REDUCE_POSITION_SIZE if any is medium, otherwise OK for the empty list
\* and CAUTION for a list of low-severity flags only.
BiasLabel ==
    rk.op # "none" =>
        rk.label = IF AnyOfSeverity(rk.biases, "high") THEN "AVOID_TRADING"
                   ELSE IF AnyOfSeverity(rk.biases, "medium")
                   THEN "REDUCE_POSITION_SIZE"
                   ELSE IF rk.biases = <<>> THEN "OK"
                   ELSE "CAUTION"

BiasLabelWitness ==
    /\ rk.op = "get_bias_recommendation"
    /\ Len(rk.biases) = 2
    /\ \A i \in 1..2 : rk.biases[i].severity = "low"
    /\ rk.label = "CAUTION"

(***************************************************************************)
(* The portfolio (src/portfolio/portfolio.py).  Allocations are in units   *)
(* of 0.01; a symbol that is not in the portfolio has the mark NotHeld.    *)
(***************************************************************************)
\* the allocations asked for, 1.1 being out of range
Weights == {0, 40, 50, 55, 60, 70, 110}

\* Portfolio.add_asset
AddAsset ==
    /\ \E symbol \in PortfolioSymbols, allocation \in Weights :
         IF ~(0 <= allocation /\ allocation <= 100)
         THEN pf' = [pf EXCEPT !.op = "add_asset", !.raised = TRUE]
         ELSE pf' = [pf EXCEPT !.op = "add_asset", !.raised = FALSE,
                               !.allocations[symbol] = allocation]
    /\ UNCHANGED <<alloc, offPortfolio>>

\* Portfolio.set_allocation
SetAllocation ==
    /\ \E symbol \in PortfolioSymbols, allocation \in Weights :
         IF pf.allocations[symbol] = NotHeld
            \/ ~(0 <= allocation /\ allocation <= 100)
         THEN pf' = [pf EXCEPT !.op = "set_allocation", !.raised = TRUE]
         ELSE pf' = [pf EXCEPT !.op = "set_allocation", !.raised = FALSE,
                               !.allocations[symbol] = allocation]
    /\ UNCHANGED <<alloc, offPortfolio>>

\* Portfolio.get_allocation: self.allocations.get(symbol, 0.0)
GetAllocation(allocations, symbol) ==
    IF allocations[symbol] = NotHeld THEN 0 ELSE allocations[symbol]

\* Portfolio.check_btc_constraints: the first member of its result
BtcConstraintsMet(allocations) ==
    LET btc_alloc == GetAllocation(allocations, "BTC")
    IN  IF btc_alloc < 50 THEN FALSE
        ELSE IF btc_alloc > 60 THEN FALSE
        ELSE TRUE

\* Portfolio.check_btc_constraints is called
CheckBtcConstraints ==
    /\ pf' = [pf EXCEPT !.op = "check_btc_constraints", !.raised = FALSE,
                        !.valid = BtcConstraintsMet(pf.allocations)]
    /\ UNCHANGED <<alloc, offPortfolio>>

(***************************************************************************)
(* SpecPortfolio: assets added, allocations set and the BTC constraint     *)
(* checked.                                                                *)
(***************************************************************************)
InitPortfolio == InitStore

NextPortfolio == AddAsset \/ SetAllocation \/ CheckBtcConstraints

SpecPortfolio == InitPortfolio /\ [][NextPortfolio]_vars

\* C27: the BTC constraint check passes exactly when 0.50 <= weight(BTC) <=
\* 0.60 for a portfolio that holds BTC, and always passes for a portfolio
\* that does not.
BtcConstraintOnlyWhenPresent ==
    pf.op = "check_btc_constraints" =>
        IF pf.allocations["BTC"] = NotHeld THEN pf.valid
        ELSE pf.valid <=> (50 <= pf.allocations["BTC"]
                           /\ pf.allocations["BTC"] <= 60)

(***************************************************************************)
(* DataCollector with every thread it has spawned (src/data/collector.py): *)
(* crew.workers[i] is where the i-th _collection_loop stands, the last of  *)
(* them being self._thread; crew.caller is the owner calling start() and   *)
(* stop(), one call after the other.                                       *)
(***************************************************************************)
\* the threads spawned, at most
MaxWorkers == 2

\* the workers that have not left _collection_loop
AliveWorkers == {i \in 1..Len(crew.workers) : crew.workers[i].pc # "done"}

\* DataCollector.start
CrewStart ==
    /\ crew.caller.pc = "idle"
    /\ Len(crew.workers) < MaxWorkers \/ crew.running
    /\ crew' = IF crew.running
               THEN [crew EXCEPT !.op = "start"]
               ELSE [crew EXCEPT !.running = TRUE,
                                 !.workers = Append(@, At("check", 0)),
                                 !.op = "start"]
    /\ UNCHANGED offThreads

\* DataCollector.stop: clear _running, then join self._thread if there is one
CrewStop ==
    /\ crew.caller.pc = "idle"
    /\ crew' = [crew EXCEPT
                  !.running = FALSE,
                  !.caller = [pc |-> IF crew.workers = <<>> THEN "idle"
                                     ELSE "joining",
                              waited |-> 0],
                  !.op = "stop"]
    /\ UNCHANGED offThreads

\* join(timeout=5) ends when self._thread has ended or the timeout has passed
CrewJoinEnds ==
    /\ crew.caller.pc = "joining"
    /\ \/ crew.workers[Len(crew.workers)].pc = "done"
       \/ crew.caller.waited = JoinTimeout

\* stop() returns
CrewStopReturn ==
    /\ CrewJoinEnds
    /\ crew' = [crew EXCEPT !.caller.pc = "idle", !.op = "stopped"]
    /\ UNCHANGED offThreads

\* one step of worker i that takes no time: the test of the while loop and
\* the start of a cycle, the test before each asset, the return of
\* _collect_asset, the test before each second of the wait
WorkerStep(i) ==
    LET wk == crew.workers[i]
    IN  /\ wk.pc \in {"check", "assets", "collecting", "waiting"}
        /\ \E next \in
              CASE wk.pc = "check" ->
                     IF ~crew.running THEN {At("done", 0)}
                     ELSE {At("assets", n) : n \in 0..MaxAssets}
                            \cup {At("backoff", BackoffSeconds)}
                [] wk.pc = "assets" ->
                     IF wk.left = 0 \/ ~crew.running
                     THEN {At("waiting", WaitSeconds)}
                     ELSE {At("collecting", wk.left)}
                [] wk.pc = "collecting" -> {At("assets", wk.left - 1)}
                [] OTHER ->
                     IF wk.left = 0 \/ ~crew.running THEN {At("check", 0)}
                     ELSE {At("sleep1", wk.left)} :
              crew' = [crew EXCEPT !.workers[i] = next, !.op = "worker"]

CrewWorkerStep ==
    /\ \E i \in 1..Len(crew.workers) : WorkerStep(i)
    /\ UNCHANGED offThreads

\* one second passes for every thread: a sleep of one second ends, a
\* back-off and the join have one second less to go, a _collect_asset in
\* flight goes on
CrewSecond ==
    /\ \A i \in 1..Len(crew.workers) :
         crew.workers[i].pc \in {"sleep1", "backoff", "collecting", "done"}
    /\ ~CrewJoinEnds
    /\ crew.workers # <<>>
    /\ crew' = [crew EXCEPT
                  !.workers =
                     [i \in 1..Len(crew.workers) |->
                        LET wk == crew.workers[i]
                        IN  CASE wk.pc = "sleep1" -> At("waiting", wk.left - 1)
                              [] wk.pc = "backoff" ->
                                   IF wk.left = 1 THEN At("check", 0)
                                   ELSE At("backoff", wk.left - 1)
                              [] OTHER -> wk],
                  !.caller.waited = IF crew.caller.pc = "joining" THEN @ + 1
                                    ELSE 0,
                  !.op = "second"]
    /\ UNCHANGED offThreads

(***************************************************************************)
(* SpecCrew: one DataCollector started and stopped again and again.        *)
(***************************************************************************)
InitCrew == InitStore

NextCrew ==
    \/ CrewStart
    \/ CrewStop
    \/ CrewStopReturn
    \/ CrewWorkerStep
    \/ CrewSecond

SpecCrew == InitCrew /\ [][NextCrew]_vars

\* C28: at most one worker thread is alive at any time, whatever start()
\* and stop() calls were made: a start() while running spawns nothing and a
\* start() after stop() has returned meets no worker from before.
AtMostOneWorkerAlive == Cardinality(AliveWorkers) <= 1

\* start() on a running collector spawns nothing
StartWhileRunningSpawnsNothing ==
    [][crew.running /\ crew'.op = "start"
         => crew'.workers = crew.workers]_vars

(***************************************************************************)
(* The last_collected watermarks (src/data/asset_config.py) under the      *)
(* collection loop, collect_now and the operator's enable_asset and        *)
(* disable_asset, all on one AssetConfigManager.  _collect_asset takes its *)
(* end_date when it starts and writes it when its fetch has returned.      *)
(***************************************************************************)
\* the clock stops here
MaxWatermarkTime == 1

Collectors == {"loop", "collect_now"}

\* get_enabled_assets: both assets have priority 1, so by symbol
EnabledInOrder(cfg) ==
    (IF cfg["BTC"].enabled THEN <<"BTC">> ELSE <<>>)
      \o (IF cfg["ETH"].enabled THEN <<"ETH">> ELSE <<>>)

\* AssetConfigManager._save_config: the file afterwards
SaveConfig(cfg, file, outcome) ==
    IF outcome = "saved" THEN [state |-> "json", assets |-> cfg]
    ELSE IF outcome = "open_fails" THEN file
    ELSE [state |-> "partial", assets |-> <<>>]

\* a pass starts: _collect_all_enabled of the loop, or collect_now() without
\* symbols, takes the list of the enabled assets
WatermarkPassStart ==
    /\ \E who \in Collectors :
         /\ wm.passes[who].todo = <<>>
         /\ wm.passes[who].symbol = "none"
         /\ EnabledInOrder(wm.assets) # <<>>
         /\ wm' = [wm EXCEPT !.passes[who].todo = EnabledInOrder(wm.assets)]
    /\ UNCHANGED offWatermarks

\* _collect_asset starts for the next asset of a pass: end_date = now()
CollectBegin ==
    /\ \E who \in Collectors :
         /\ wm.passes[who].todo # <<>>
         /\ wm.passes[who].symbol = "none"
         /\ wm' = [wm EXCEPT !.passes[who] =
                                [todo |-> Tail(wm.passes[who].todo),
                                 symbol |-> Head(wm.passes[who].todo),
                                 end_date |-> wm.now]]
    /\ UNCHANGED offWatermarks

\* AssetConfigManager.update_last_collected: _assets afterwards
SetLastCollected(cfg, symbol, timestamp) ==
    [cfg EXCEPT ![symbol].last_collected = timestamp]

\* the fetch of a _collect_asset returns rows, returns nothing or raises;
\* with rows, update_last_collected(symbol, end_date) and _save_config
CollectEnd ==
    /\ \E who \in Collectors, fetched \in {"rows", "empty", "raised"},
          outcome \in SaveOutcomes :
         LET p == wm.passes[who]
             cfg == SetLastCollected(wm.assets, p.symbol, p.end_date)
         IN  /\ p.symbol # "none"
             /\ wm' = IF fetched = "rows"
                      THEN [wm EXCEPT
                              !.assets = cfg,
                              !.file = SaveConfig(cfg, wm.file, outcome),
                              !.passes[who].symbol = "none"]
                      ELSE [wm EXCEPT !.passes[who].symbol = "none"]
    /\ UNCHANGED offWatermarks

\* AssetConfigManager.enable_asset and disable_asset of a configured asset
SetAssetEnabled ==
    /\ \E symbol \in WatermarkSymbols, enabled \in BOOLEAN,
          outcome \in SaveOutcomes :
         LET cfg == [wm.assets EXCEPT ![symbol].enabled = enabled]
         IN  wm' = [wm EXCEPT !.assets = cfg,
                              !.file = SaveConfig(cfg, wm.file, outcome)]
    /\ UNCHANGED offWatermarks

\* time passes
WatermarkTick ==
    /\ wm.now < MaxWatermarkTime
    /\ wm' = [wm EXCEPT !.now = @ + 1]
    /\ UNCHANGED offWatermarks

(***************************************************************************)
(* SpecWatermark: the loop and collect_now collecting side by side while   *)
(* the operator enables and disables assets.                               *)
(***************************************************************************)
InitWatermark == InitStore

NextWatermark ==
    \/ WatermarkPassStart
    \/ CollectBegin
    \/ CollectEnd
    \/ SetAssetEnabled
    \/ WatermarkTick

SpecWatermark == InitWatermark /\ [][NextWatermark]_vars

\* C29: the last_collected of an asset never decreases, in memory and in
\* the saved configuration, whatever the interleaving of the loop,
\* collect_now and enable_asset / disable_asset.
WatermarkNeverDecreases ==
    [][\A s \in WatermarkSymbols :
         /\ wm'.assets[s].last_collected >= wm.assets[s].last_collected
         /\ wm.file.state = "json" /\ wm'.file.state = "json" =>
              wm'.file.assets[s].last_collected
                >= wm.file.assets[s].last_collected]_vars

(***************************************************************************)
(* DataCache.clear(adapter): what it leaves of the other adapters          *)
(***************************************************************************)
\* the step is a clear(adapter) call whose file operations end as io tells
IsClearOf(adapter, io) ==
    LET cleared == CacheClear(memory, files, cacheDir, adapter, io)
    IN  /\ memory' = cleared.memory
        /\ files' = cleared.files
        /\ lastSet' = [k \in CacheKeys |->
                         IF k[1] = adapter THEN NoEntry ELSE lastSet[k]]
        /\ cres' = NoCall
        /\ now' = now

\* the price a get of key would return right after the step
GetAfter(key) == CacheGet(memory', files', cacheDir, key, now, "ok").price

\* C30: clear(adapter) removes only that adapter's entries: afterwards a get
\* for any key of that adapter returns none, while every still-fresh entry
\* stored under a different adapter remains intact in both the memory tier
\* and the file-backed tier and is still returned by get
ClearRemovesOnlyThatAdapter ==
    [][\A adapter \in CacheAdapters :
         IsClearOf(adapter, "ok") =>
             \A k \in CacheKeys :
                 IF k[1] = adapter
                 THEN GetAfter(k) = NoPrice
                 ELSE /\ Fresh(memory[k], now) =>
                            /\ memory'[k] = memory[k]
                            /\ GetAfter(k) = memory[k].price
                      /\ Fresh(files[k], now) => files'[k] = files[k]]_vars

====
